---- MODULE Spec2Model ----
(***************************************************************************)
(* Model of the trading engine (Engine: Start/Stop and its four periodic   *)
(* tasks), of the RiskManager it consults, and of the repository and the   *)
(* venue client at their call boundary.                                    *)
(*                                                                         *)
(* Money is kept in whole units: prices are taken from divisors of the     *)
(* strategies' fixed position value, so quantity = value / price and       *)
(* quantity * price are exact, as they are in float64 for these inputs.    *)
(***************************************************************************)
EXTENDS Integers, Sequences, FiniteSets, TLC

(***************************************************************************)
(* Bounds of the model.                                                    *)
(***************************************************************************)
NumSymbols == 2
MaxStarts == 1
MaxTicks == 2
MaxNow == 1
MaxFaults == 1
NumCallers == 2
ClockPerDay == 2
DaysPerMonth == 2
MonthsPerYear == 2

Prices == {100, 200}

(***************************************************************************)
(* Program constants.                                                      *)
(***************************************************************************)
PositionValue == 1000
ExposureMultiple == 10
DefaultMaxPositionSize == 1000
DefaultMaxDailyLoss == 500
DefaultRiskPerTrade == 1
DefaultMinOrderValue == 10
DefaultStopLossPercent == 2
DefaultTakeProfitPercent == 5
DefaultStrategyType == "simple_moving_average"

Kinds == {"market", "trading", "risk", "account"}
Gens == 1..(MaxStarts + 1)
Callers == 1..NumCallers

VARIABLES
    config,         \* Engine.config: Symbols (count), EnablePaperTrading, MaxPositionSize
    strategyType,   \* config.Strategy.Type
    minOrderValue,  \* config.MinOrderValue
    uniqueKey,      \* deployed schema has UNIQUE(symbol, position_side, status)
    riskConfig,     \* RiskManager.config
    mu,             \* Engine.mu: the caller inside Start or Stop, 0 = unlocked
    callers,        \* per caller of Start/Stop: the call it is in, how far it got, what it returned
    isRunning,      \* Engine.isRunning
    ctxDone,        \* Engine.ctx has been cancelled by Engine.cancel
    gens,           \* number of successful Start calls
    callerDone,     \* per Start call: the ctx argument has been cancelled
    result,         \* what the last Start/Stop call returned and did
    task,           \* per Start call and task kind: none / wait / work / exited
    loop,           \* per Start call: locals of the tradingLoop iteration
    evals,          \* per Start call and symbol: the strategy calls of its latest decision tick
    marketData,     \* Engine.marketData: close of the latest kline, 0 = absent
    positions,      \* repository: positions table, id = index
    orders,         \* repository: orders table
    marketRows,     \* repository: close of the last market-data row saved per symbol, 0 = none
    metrics,        \* repository: last saved risk metric (win rate), -1 = none
    account,        \* repository: last saved account balance, 0 = none
    venue,          \* venue client: log of PlaceOrder calls
    initCalls,      \* venue client: number of SetLeverage/ChangeMarginType calls
    dailyPnL, totalTrades, winningTrades, losingTrades,   \* Engine counters
    rm,             \* RiskManager: dailyLoss, dailyTrades, lastResetDate, totalExposure, maxExposure
    now,            \* the wall clock read by time.Now()
    startsLeft,     \* successful Start calls the model still allows
    ticksLeft,      \* ticker firings the model still allows
    faultsLeft,     \* collaborator failures the model still allows
    call,           \* the last RiskManager call made from outside the engine and what it returned
    latched,        \* EmergencyStop was called and no daily reset has happened since
    stopDate,       \* the calendar date of the last EmergencyStop call, << >> = never called
    closeCheck,     \* the last ShouldClosePosition call: the position given, what it returned
    lateIter,       \* per task: iterations it began after its engine run was stopped
    lastTick,       \* the ticker that fired last: its task, and the symbols whose fetch failed
    lossDay, lossSum, \* realised losses of the sells filled on calendar day lossDay
    strategy,       \* the Strategy instance: its variant and its fields
    parameters,     \* config.Strategy.Parameters, the map given to Initialize
    priceHistory,   \* SMAStrategy/RSIStrategy.priceHistory, per symbol
    grid,           \* GridStrategy.basePrice and GridStrategy.positions
    signal,         \* the last ShouldBuy/ShouldSell call and the Signal it returned
    feed,           \* the price the next call is given, and how the price last moved
    evalsLeft,      \* ShouldBuy/ShouldSell calls the model still allows
    firstPrice      \* Grid variant, per symbol: the price of its first ShouldBuy call, 0 = none yet

lockVars == <<mu, callers>>
cfgVars == <<config, strategyType, minOrderValue, uniqueKey, riskConfig, lockVars>>
lifeVars == <<isRunning, ctxDone, gens, callerDone, result>>
taskVars == <<task, loop, evals>>
storeVars == <<positions, orders, marketRows, metrics, account>>
venueVars == <<venue, initCalls>>
statVars == <<dailyPnL, totalTrades, winningTrades, losingTrades>>
obsVars == <<lateIter, lastTick, lossDay, lossSum>>
gateVars == <<call, latched, stopDate, closeCheck>>
stratVars == <<strategy, parameters, priceHistory, grid, signal, feed, evalsLeft, firstPrice>>
vars == <<cfgVars, lifeVars, taskVars, storeVars, venueVars, statVars, obsVars, gateVars,
          stratVars, marketData, rm, now, startsLeft, ticksLeft, faultsLeft>>

Symbols == 1..config.Symbols

(***************************************************************************)
(* Calendar: time.Time reduced to a clock reading and its date fields.     *)
(***************************************************************************)
Day(t) == ((t \div ClockPerDay) % DaysPerMonth) + 1
Month(t) == ((t \div (ClockPerDay * DaysPerMonth)) % MonthsPerYear) + 1
Year(t) == t \div (ClockPerDay * DaysPerMonth * MonthsPerYear)
DateOf(t) == <<Year(t), Month(t), Day(t)>>

(***************************************************************************)
(* RiskManager                                                             *)
(***************************************************************************)
NewRiskManager(c, t) ==
    [dailyLoss |-> 0, dailyTrades |-> 0, lastResetDate |-> t,
     totalExposure |-> 0, maxExposure |-> c.MaxPositionSize * ExposureMultiple]

orderValue(order) == order.Quantity * order.Price

validateOrderSizeNoMinimum(c, order) ==
    ~(c.MaxOrderValue > 0 /\ orderValue(order) > c.MaxOrderValue)

validateOrderSize(c, order) ==
    IF orderValue(order) < c.MinOrderValue THEN FALSE
    ELSE IF c.MaxOrderValue > 0 /\ orderValue(order) > c.MaxOrderValue THEN FALSE
    ELSE TRUE

validatePositionSize(c, order) == ~(orderValue(order) > c.MaxPositionSize)

validateDailyLossLimit(r, c) == ~(r.dailyLoss >= c.MaxDailyLoss)

validateExposureLimit(r, order) ==
    LET newExposure == r.totalExposure + orderValue(order)
    IN  ~(newExposure > r.maxExposure)

validateRiskPerTradeAgainstLoss(c, order) ==
    ~(orderValue(order) * c.RiskPerTrade > c.MaxDailyLoss)

\* riskAmount and maxRiskPerTrade are both kept times 100 (RiskPerTrade is a percentage)
validateRiskPerTrade(c, order) ==
    LET riskAmount == orderValue(order) * c.RiskPerTrade
        maxRiskPerTrade == c.MaxPositionSize * c.RiskPerTrade
    IN  ~(riskAmount > maxRiskPerTrade)

isTradingAllowedWithoutTradeCap(r, c) == ~(r.dailyLoss >= c.MaxDailyLoss)

isTradingAllowed(r, c) ==
    IF c.MaxOpenPositions > 0 /\ r.dailyTrades >= c.MaxOpenPositions THEN FALSE
    ELSE IF r.dailyLoss >= c.MaxDailyLoss THEN FALSE
    ELSE TRUE

resetWheneverTimeDiffers(r, t) ==
    IF t # r.lastResetDate
    THEN [r EXCEPT !.dailyLoss = 0, !.dailyTrades = 0, !.lastResetDate = t]
    ELSE r

resetDailyCountersIfNeeded(r, t) ==
    IF Day(t) # Day(r.lastResetDate) \/ Month(t) # Month(r.lastResetDate)
           \/ Year(t) # Year(r.lastResetDate)
    THEN [r EXCEPT !.dailyLoss = 0, !.dailyTrades = 0, !.lastResetDate = t]
    ELSE r

\* the pipeline of checks, on the state left by resetDailyCountersIfNeeded
ValidateChecks(r, c, order) ==
    /\ isTradingAllowed(r, c)
    /\ validateOrderSize(c, order)
    /\ validatePositionSize(c, order)
    /\ validateDailyLossLimit(r, c)
    /\ validateExposureLimit(r, order)
    /\ validateRiskPerTrade(c, order)

ValidateOrder(r, c, order, t) == ValidateChecks(resetDailyCountersIfNeeded(r, t), c, order)

(***************************************************************************)
(* Strategy variants.  float64 values are kept as exact fractions          *)
(* <<numerator, denominator>> with a positive denominator.                 *)
(***************************************************************************)
Frac(n, d) == <<n, d>>
Whole(n) == <<n, 1>>
FAdd(a, b) == <<a[1] * b[2] + b[1] * a[2], a[2] * b[2]>>
FSub(a, b) == <<a[1] * b[2] - b[1] * a[2], a[2] * b[2]>>
FMul(a, b) == <<a[1] * b[1], a[2] * b[2]>>
\* a / b for b > 0
FDiv(a, b) == <<a[1] * b[2], a[2] * b[1]>>
FLess(a, b) == a[1] * b[2] < b[1] * a[2]
FLeq(a, b) == a[1] * b[2] <= b[1] * a[2]
FEq(a, b) == a[1] * b[2] = b[1] * a[2]
FMin(a, b) == IF FLeq(a, b) THEN a ELSE b
\* int(x): truncation toward zero
Trunc(a) == IF a[1] >= 0 THEN a[1] \div a[2] ELSE -((-a[1]) \div a[2])

SMAHistoryMargin == 10
RSIHistoryMargin == 20
ConfidenceScale == 10
StopLossPercent == 2
TakeProfitPercent == 5
NeutralRSI == 50
FullRSI == 100
GridLevelValue == 100

NewSMAStrategyLax ==
    [variant |-> "sma", shortPeriod |-> 10, longPeriod |-> 20, minConfidence |-> Frac(4, 10)]

NewSMAStrategy ==
    [variant |-> "sma", shortPeriod |-> 10, longPeriod |-> 20, minConfidence |-> Frac(7, 10)]

NewRSIStrategy ==
    [variant |-> "rsi", period |-> 14, oversold |-> 30, overbought |-> 70,
     minConfidence |-> Frac(6, 10)]

NewGridStrategy ==
    [variant |-> "grid", gridSize |-> Frac(1, 100), numGrids |-> 10,
     minConfidence |-> Frac(8, 10)]

NewAIStrategy == [variant |-> "ai"]

\* Initialize: the parameters present in the map replace the fields of the
\* variant that has them; the AI variant ignores the map
Initialize(s, params) ==
    [f \in DOMAIN s |-> IF f \in DOMAIN params /\ f # "variant" THEN params[f] ELSE s[f]]

HoldSignal(reason) ==
    [Action |-> "HOLD", Quantity |-> Whole(0), Price |-> 0, Confidence |-> Whole(0),
     Reason |-> reason]

Signal(action, quantity, price, confidence, reason) ==
    [Action |-> action, Quantity |-> quantity, Price |-> price, Confidence |-> confidence,
     Reason |-> reason]

ActionableAlways(minConfidence, confidence) == TRUE

\* if confidence >= minConfidence
Actionable(minConfidence, confidence) == FLeq(minConfidence, confidence)

LastOf(h, n) == SubSeq(h, Len(h) - n + 1, Len(h))

RECURSIVE SumOf(_)
SumOf(h) == IF h = << >> THEN 0 ELSE h[1] + SumOf(Tail(h))

updatePriceHistoryKeepingOldest(h, price, maxLength) ==
    LET a == Append(h, price)
    IN  IF Len(a) > maxLength THEN SubSeq(a, 1, maxLength) ELSE a

\* append, then keep the last maxLength samples
updatePriceHistory(h, price, maxLength) ==
    LET a == Append(h, price)
    IN  IF Len(a) > maxLength THEN LastOf(a, maxLength) ELSE a

calculateSMAOverOldest(prices, period) ==
    IF Len(prices) < period THEN Whole(0)
    ELSE Frac(SumOf(SubSeq(prices, 1, period)), period)

calculateSMA(prices, period) ==
    IF Len(prices) < period THEN Whole(0) ELSE Frac(SumOf(LastOf(prices, period)), period)

calculateQuantity(price, positionValue) == Frac(positionValue, price)

\* (price - entry) / entry * 100
pnlPercent(price, entry) == FMul(FDiv(Whole(price - entry), Whole(entry)), Whole(100))

\* the fixed stop loss and take profit both variants close their ShouldSell with
ProtectiveSell(price, position) ==
    IF FLeq(pnlPercent(price, position.entryPrice), Whole(-StopLossPercent))
    THEN Signal("SELL", Whole(position.size), price, Whole(1), "Stop loss")
    ELSE IF FLeq(Whole(TakeProfitPercent), pnlPercent(price, position.entryPrice))
    THEN Signal("SELL", Whole(position.size), price, Whole(1), "Take profit")
    ELSE HoldSignal("No sell signal")

\* SMAStrategy.ShouldBuy on the history already updated with price
SMAShouldBuy(s, prices, price) ==
    IF Len(prices) < s.longPeriod THEN HoldSignal("Insufficient data")
    ELSE LET shortSMA == calculateSMA(prices, s.shortPeriod)
             longSMA == calculateSMA(prices, s.longPeriod)
             crossoverStrength == FDiv(FSub(shortSMA, longSMA), longSMA)
             confidence == FMin(FMul(crossoverStrength, Whole(ConfidenceScale)), Whole(1))
         IN  IF FLess(longSMA, shortSMA) /\ Actionable(s.minConfidence, confidence)
             THEN Signal("BUY", calculateQuantity(price, PositionValue), price, confidence,
                         "SMA crossover")
             ELSE HoldSignal("No buy signal")

SMAShouldSell(s, prices, price, position) ==
    IF Len(prices) < s.longPeriod THEN HoldSignal("Insufficient data")
    ELSE LET shortSMA == calculateSMA(prices, s.shortPeriod)
             longSMA == calculateSMA(prices, s.longPeriod)
             crossoverStrength == FDiv(FSub(longSMA, shortSMA), longSMA)
             confidence == FMin(FMul(crossoverStrength, Whole(ConfidenceScale)), Whole(1))
         IN  IF FLess(shortSMA, longSMA) /\ Actionable(s.minConfidence, confidence)
             THEN Signal("SELL", Whole(position.size), price, confidence, "SMA crossover")
             ELSE ProtectiveSell(price, position)

GainsOverOldest(prices, period) ==
    LET up(i) == IF prices[i] - prices[i - 1] > 0 THEN prices[i] - prices[i - 1] ELSE 0
    IN  SumOf([k \in 1..period |-> up(k + 1)])

\* the sums of the gains and of the losses of the last period price changes
Gains(prices, period) ==
    LET n == Len(prices)
        up(i) == IF prices[i] - prices[i - 1] > 0 THEN prices[i] - prices[i - 1] ELSE 0
    IN  SumOf([k \in 1..period |-> up(n - period + k)])

LossesOf(prices, period) ==
    LET n == Len(prices)
        down(i) == IF prices[i] - prices[i - 1] > 0 THEN 0 ELSE prices[i - 1] - prices[i]
    IN  SumOf([k \in 1..period |-> down(n - period + k)])

calculateRSI(r, prices) ==
    IF Len(prices) < r.period + 1 THEN Whole(NeutralRSI)
    ELSE LET avgGain == Frac(Gains(prices, r.period), r.period)
             avgLoss == Frac(LossesOf(prices, r.period), r.period)
         IN  IF avgLoss[1] = 0 THEN Whole(FullRSI)
             ELSE LET rs == FDiv(avgGain, avgLoss)
                  IN  FSub(Whole(FullRSI), FDiv(Whole(FullRSI), FAdd(Whole(1), rs)))

RSIShouldBuy(r, prices, price) ==
    IF Len(prices) < r.period + 1 THEN HoldSignal("Insufficient data for RSI")
    ELSE LET rsi == calculateRSI(r, prices)
             confidence == FDiv(FSub(Whole(r.oversold), rsi), Whole(r.oversold))
         IN  IF FLess(rsi, Whole(r.oversold)) /\ Actionable(r.minConfidence, confidence)
             THEN Signal("BUY", calculateQuantity(price, PositionValue), price, confidence,
                         "RSI oversold")
             ELSE HoldSignal("RSI")

RSIShouldSell(r, prices, price, position) ==
    IF Len(prices) < r.period + 1 THEN HoldSignal("Insufficient data for RSI")
    ELSE LET rsi == calculateRSI(r, prices)
             confidence == FDiv(FSub(rsi, Whole(r.overbought)),
                                Whole(FullRSI - r.overbought))
         IN  IF FLess(Whole(r.overbought), rsi) /\ Actionable(r.minConfidence, confidence)
             THEN Signal("SELL", Whole(position.size), price, confidence, "RSI overbought")
             ELSE ProtectiveSell(price, position)

\* initializeGrid: level i (from 0) at basePrice * (1 + (i - numGrids/2) * gridSize)
initializeGrid(g, basePrice) ==
    [i \in 1..g.numGrids |->
        [Price |-> FMul(Whole(basePrice),
                        FAdd(Whole(1), FMul(Whole((i - 1) - g.numGrids \div 2), g.gridSize))),
         Active |-> FALSE]]

\* findGridLevel, counted from 0
findGridLevel(g, basePrice, price) ==
    IF basePrice = 0 THEN -1
    ELSE LET offset == FDiv(FDiv(Whole(price - basePrice), Whole(basePrice)), g.gridSize)
         IN  Trunc(offset) + g.numGrids \div 2

calculateGridQuantity(price) == Frac(GridLevelValue, price)

\* the grid state GridStrategy.ShouldBuy leaves: only a strategy whose
\* basePrice is still 0 lays out levels, and then for the symbol of that call
GridAfterBuy(g, gr, symbol, price) ==
    IF gr.basePrice = 0
    THEN [basePrice |-> price,
          positions |-> [gr.positions EXCEPT ![symbol] = initializeGrid(g, price)]]
    ELSE gr

GridShouldBuy(g, gr, symbol, price) ==
    LET after == GridAfterBuy(g, gr, symbol, price)
        gridLevel == findGridLevel(g, after.basePrice, price)
        levels == after.positions[symbol]
    IN  IF gridLevel < 0 \/ gridLevel >= Len(levels)
        THEN HoldSignal("Price outside grid range")
        ELSE IF FLeq(Whole(price), levels[gridLevel + 1].Price) /\ ~levels[gridLevel + 1].Active
        THEN Signal("BUY", calculateGridQuantity(price), price, g.minConfidence,
                    "Grid buy at level")
        ELSE HoldSignal("No grid buy signal")

GridShouldSell(g, gr, price, position) ==
    IF gr.basePrice = 0 THEN HoldSignal("Grid not initialized")
    ELSE LET profitTarget == FMul(Whole(position.entryPrice), FAdd(Whole(1), g.gridSize))
             stopLoss == FMul(Whole(position.entryPrice),
                              FSub(Whole(1), FMul(g.gridSize, Whole(2))))
         IN  IF FLeq(profitTarget, Whole(price))
             THEN Signal("SELL", Whole(position.size), price, g.minConfidence,
                         "Grid sell target reached")
             ELSE IF FLeq(Whole(price), stopLoss)
             THEN Signal("SELL", Whole(position.size), price, Whole(1), "Grid stop loss")
             ELSE HoldSignal("No grid sell signal")

AIShouldBuy == Signal("BUY", Whole(0), 0, Whole(0), "")

AIShouldSell == Signal("SELL", Whole(0), 0, Whole(0), "")

\* the cap of the variant's price history
MaxLength(s) ==
    IF s.variant = "sma" THEN s.longPeriod + SMAHistoryMargin ELSE s.period + RSIHistoryMargin

KeepsHistory(s) == s.variant \in {"sma", "rsi"}

(***************************************************************************)
(* One Strategy instance driven through ShouldBuy and ShouldSell.  The     *)
(* price starts at StartPrice and moves by one of Moves between calls; it  *)
(* changes the way it moves at most MaxTurns times, and the calls go       *)
(* through the symbols the instance is asked about in order.               *)
(***************************************************************************)
MaxTurns == 1
StartPrice == 100
Moves == {-2, -1, 0, 1, 2}
DefaultSMACalls == 25
SmallSMACalls == 13
DefaultRSICalls == 16
SmallRSICalls == 23
GridCalls == 4
FallbackCalls == 2
AICalls == 3

NoParameters == << >>
SmallSMAParameters == [shortPeriod |-> 1, longPeriod |-> 2, minConfidence |-> Frac(1, 20)]
SmallRSIParameters == [period |-> 2]
AIParameters == [minConfidence |-> Frac(7, 10)]

\* the positions ShouldSell is asked about
HeldPositions == {[size |-> 10, entryPrice |-> StartPrice]}
NoPosition == [size |-> 0, entryPrice |-> 0]

NoSignal ==
    [call |-> "none", symbol |-> 0, price |-> 0, position |-> NoPosition,
     result |-> HoldSignal("")]

\* NewEngine's choice of a strategy and its Initialize(Parameters)
StrategyFields(new, params, symbols, calls) ==
    /\ strategy = Initialize(new, params)
    /\ parameters = params
    /\ priceHistory = [s \in 1..NumSymbols |-> << >>]
    /\ grid = [basePrice |-> 0, positions |-> [s \in 1..NumSymbols |-> << >>]]
    /\ signal = NoSignal
    /\ feed = [price |-> StartPrice, move |-> 0, turnsLeft |-> MaxTurns, symbol |-> 1,
               symbols |-> symbols]
    /\ evalsLeft = calls
    /\ firstPrice = [s \in 1..NumSymbols |-> 0]

\* values of strategy.type without a case of their own in NewEngine
OtherTypes == {"grid", "momentum"}

\* NewEngine's switch on config.Strategy.Type
SelectStrategy(type) ==
    CASE type = "simple_moving_average" -> NewSMAStrategy
      [] type = "rsi" -> NewRSIStrategy
      [] type = "ai" -> NewAIStrategy
      [] OTHER -> NewSMAStrategy

\* the strategy NewEngine builds for config.Strategy
Selected(type, params, symbols, calls) ==
    /\ strategyType = type
    /\ StrategyFields(SelectStrategy(type), params, symbols, calls)

\* a strategy built by calling its constructor, without an engine
Standalone == "(constructor)"

Constructed(new, params, symbols, calls) ==
    /\ strategyType = Standalone
    /\ StrategyFields(new, params, symbols, calls)

(***************************************************************************)
(* Engine construction                                                     *)
(***************************************************************************)
\* the RiskConfig NewEngine builds: the fields it does not pass stay zero
EngineRiskConfig(maxPositionSize) ==
    [MaxPositionSize |-> maxPositionSize, MaxDailyLoss |-> DefaultMaxDailyLoss,
     RiskPerTrade |-> DefaultRiskPerTrade, MaxOpenPositions |-> 0,
     MinOrderValue |-> 0, MaxOrderValue |-> 0,
     StopLossPercent |-> DefaultStopLossPercent,
     TakeProfitPercent |-> DefaultTakeProfitPercent]

IdleCaller == [op |-> "none", step |-> "idle", err |-> "none"]

NoCloseCheck == [position |-> << >>, close |-> FALSE, reason |-> "none"]

IdleLoop == [step |-> "idle", sym |-> 0, pos |-> 0, price |-> 0, signal |-> "HOLD"]

NoTick == [g |-> 0, k |-> "none", failed |-> {}]

NoCall == [op |-> "none", ret |-> FALSE, order |-> [Quantity |-> 0, Price |-> 0]]

NoResult == [op |-> "none", err |-> "nil", loaded |-> FALSE, attempted |-> {}]

Position(sym, size, entry) ==
    [symbol |-> sym, positionSide |-> "LONG", size |-> size, entryPrice |-> entry,
     status |-> "OPEN", closedPnL |-> 0]

\* rows an earlier run of the engine can leave behind: Stop submits closing
\* orders but never closes the row, so a position opened by a live run is
\* still OPEN when the process is started again
InitialStores == {<< >>, <<Position(1, PositionValue \div 200, 200)>>}

\* max_position_size settings: the default, and one below the strategies'
\* fixed position value
PositionSizes == {DefaultMaxPositionSize, DefaultMaxPositionSize \div 2}

\* the Engine fields and the collaborators' state, the RiskManager apart
EngineFields(n, paper, maxPositionSize, store, schema) ==
    /\ config = [Symbols |-> n, EnablePaperTrading |-> paper,
                 MaxPositionSize |-> maxPositionSize]
    /\ uniqueKey = schema
    /\ mu = 0
    /\ callers = [c \in Callers |-> IdleCaller]
    /\ isRunning = FALSE
    /\ ctxDone = FALSE
    /\ gens = 0
    /\ callerDone = [g \in Gens |-> FALSE]
    /\ result = NoResult
    /\ task = [g \in Gens |-> [k \in Kinds |-> "none"]]
    /\ loop = [g \in Gens |-> IdleLoop]
    /\ evals = [g \in Gens |-> [s \in 1..n |-> << >>]]
    /\ marketData = [s \in 1..n |-> 0]
    /\ positions = store
    /\ orders = << >>
    /\ marketRows = [s \in 1..n |-> 0]
    /\ metrics = -1
    /\ account = 0
    /\ venue = << >>
    /\ initCalls = 0
    /\ dailyPnL = 0
    /\ totalTrades = 0
    /\ winningTrades = 0
    /\ losingTrades = 0
    /\ now = 0
    /\ lateIter = [g \in Gens |-> [k \in Kinds |-> 0]]
    /\ lastTick = NoTick
    /\ lossDay = DateOf(0)
    /\ lossSum = 0
    /\ call = NoCall
    /\ latched = FALSE
    /\ stopDate = << >>
    /\ closeCheck = NoCloseCheck

NewEngine(n, paper, maxPositionSize, store, schema) ==
    /\ EngineFields(n, paper, maxPositionSize, store, schema)
    /\ Selected(DefaultStrategyType, NoParameters, 1, 0)
    /\ riskConfig = EngineRiskConfig(maxPositionSize)
    /\ rm = NewRiskManager(EngineRiskConfig(maxPositionSize), 0)

Init ==
    /\ \E paper \in BOOLEAN, size \in PositionSizes, store \in InitialStores,
          schema \in BOOLEAN :
          NewEngine(NumSymbols, paper, size, store, schema)
    /\ minOrderValue = DefaultMinOrderValue
    /\ startsLeft = MaxStarts
    /\ ticksLeft = MaxTicks
    /\ faultsLeft = MaxFaults

(***************************************************************************)
(* Repository                                                              *)
(***************************************************************************)
Ids == DOMAIN positions

\* GetAllPositions: WHERE status = 'OPEN'
GetAllPositions == {i \in Ids : positions[i].status = "OPEN"}

OpenIds(sym, side) ==
    {i \in Ids : /\ positions[i].symbol = sym
                 /\ positions[i].positionSide = side
                 /\ positions[i].status = "OPEN"}

MinOf(S) == CHOOSE x \in S : \A y \in S : x <= y

\* GetPosition: WHERE symbol, position_side, status = 'OPEN', First(); 0 = ErrRecordNotFound
GetPosition(sym, side) ==
    IF OpenIds(sym, side) = {} THEN 0 ELSE MinOf(OpenIds(sym, side))

\* the migration's UNIQUE KEY unique_open_position (symbol, position_side, status)
KeyFree(sym, side, status, self) ==
    ~uniqueKey \/ ~\E j \in Ids : /\ j # self
                                  /\ positions[j].symbol = sym
                                  /\ positions[j].positionSide = side
                                  /\ positions[j].status = status

CreatePosition(p) == Append(positions, p)

ClosePosition(id, pnl) ==
    [positions EXCEPT ![id].status = "CLOSED", ![id].closedPnL = pnl]

(***************************************************************************)
(* Lifecycle: Start, Stop                                                  *)
(***************************************************************************)
\* the context the four goroutines select on: the ctx argument of Start
TaskCtxDone(g) == callerDone[g]

\* the engine run that launched generation g has been stopped
Stopped(g) == g < gens \/ (g = gens /\ ~isRunning)

StartNeverRejects(running) == FALSE

StartRejects(running) == running

Start ==
    IF StartRejects(isRunning)
    THEN /\ result' = [op |-> "Start", err |-> "already running",
                       loaded |-> FALSE, attempted |-> {}]
         /\ UNCHANGED <<cfgVars, isRunning, ctxDone, gens, callerDone, taskVars, storeVars,
                        venueVars, statVars, obsVars, marketData, rm, now, ticksLeft,
                        faultsLeft, startsLeft, gateVars, stratVars>>
    ELSE /\ startsLeft > 0
         /\ startsLeft' = startsLeft - 1
         /\ isRunning' = TRUE
         \* initializeSymbols: SetLeverage and ChangeMarginType per symbol, failures only logged
         /\ initCalls' = initCalls + 2 * config.Symbols
         /\ gens' = gens + 1
         \* a goroutine started with a context that is already done returns at its first select
         /\ task' = [task EXCEPT ![gens + 1] =
                        [k \in Kinds |-> IF TaskCtxDone(gens + 1) THEN "exited" ELSE "wait"]]
         /\ result' = [op |-> "Start", err |-> "nil", loaded |-> FALSE, attempted |-> {}]
         /\ UNCHANGED <<cfgVars, ctxDone, callerDone, loop, evals, storeVars, venue, statVars,
                        obsVars, marketData, rm, now, ticksLeft, faultsLeft, gateVars, stratVars>>

\* the positions closeAllPositions calls PlaceOrder for, given those whose call fails
AttemptedUntilFailure(ids, fails) == {i \in ids : \A j \in fails : i <= j}

Attempted(ids, fails) == ids

RECURSIVE CloseCalls(_, _)
CloseCalls(ids, fails) ==
    IF ids = {} THEN << >>
    ELSE LET i == MinOf(ids)
         IN  <<[symbol |-> positions[i].symbol, side |-> "SELL",
                quantity |-> positions[i].size, origin |-> "stop",
                status |-> IF i \in fails THEN "ERROR" ELSE "ACCEPTED"]>>
             \o CloseCalls(ids \ {i}, fails)

closeAllPositions(loadOk, fails) ==
    IF ~loadOk
    THEN [err |-> "failed to get positions", loaded |-> FALSE, attempted |-> {}, calls |-> << >>]
    ELSE LET att == Attempted(GetAllPositions, fails)
         IN  [err |-> "nil", loaded |-> TRUE, attempted |-> att, calls |-> CloseCalls(att, fails)]

LiquidatedRowsClosed(rows, attempted) ==
    [i \in DOMAIN rows |->
        IF i \in attempted THEN [rows[i] EXCEPT !.status = "CLOSED"] ELSE rows[i]]

\* the positions table after closeAllPositions: it calls PlaceOrder and makes
\* no repository write
LiquidatedRows(rows, attempted) == rows

\* loadOk = FALSE: GetAllPositions fails; fails: the positions whose PlaceOrder fails
Stop(loadOk, fails) ==
    IF ~isRunning
    THEN /\ loadOk /\ fails = {}
         /\ result' = [op |-> "Stop", err |-> "nil", loaded |-> FALSE, attempted |-> {}]
         /\ UNCHANGED <<cfgVars, isRunning, ctxDone, gens, callerDone, taskVars, storeVars,
                        venueVars, statVars, obsVars, marketData, rm, now, ticksLeft,
                        faultsLeft, startsLeft, gateVars, stratVars>>
    ELSE LET c == closeAllPositions(loadOk, fails)
             n == (IF loadOk THEN 0 ELSE 1) + Cardinality(fails)
         IN  /\ loadOk \/ fails = {}
             /\ n <= faultsLeft
             /\ faultsLeft' = faultsLeft - n
             /\ ctxDone' = TRUE
             /\ venue' = venue \o c.calls
             /\ isRunning' = FALSE
             \* the error of closeAllPositions is logged, Stop returns nil
             /\ result' = [op |-> "Stop", err |-> "nil", loaded |-> c.loaded,
                           attempted |-> c.attempted]
             /\ positions' = LiquidatedRows(positions, c.attempted \ fails)
             /\ UNCHANGED <<cfgVars, gens, callerDone, taskVars, orders, marketRows, metrics,
                            account, initCalls, statVars, obsVars, marketData, rm, now,
                            ticksLeft, startsLeft, gateVars, stratVars>>

\* the owner of the context passed to the g-th Start cancels it: the goroutines
\* blocked in their select return at once, a busy one at its next select
CallerCancel(g) ==
    /\ g <= gens
    /\ ~callerDone[g]
    /\ callerDone' = [callerDone EXCEPT ![g] = TRUE]
    /\ task' = [task EXCEPT ![g] =
                   [k \in Kinds |-> IF task[g][k] = "wait" THEN "exited" ELSE task[g][k]]]
    /\ UNCHANGED <<cfgVars, isRunning, ctxDone, gens, result, loop, evals, storeVars, venueVars,
                   statVars, obsVars, marketData, rm, now, ticksLeft, faultsLeft, startsLeft, gateVars, stratVars>>

BlockedOrBusy(state) == state \in {"wait", "work"}

\* the goroutine of the task is blocked in its select
Blocked(state) == state = "wait"

\* case <-ticker.C: of a task that is waiting and whose context is live;
\* failed: the symbols whose fetch fails in the iteration this begins
Ticked(g, k, failed) ==
    /\ Blocked(task[g][k])
    /\ ~TaskCtxDone(g)
    /\ ticksLeft > 0
    /\ ticksLeft' = ticksLeft - 1
    /\ lateIter' = IF Stopped(g) THEN [lateIter EXCEPT ![g][k] = @ + 1] ELSE lateIter
    /\ lastTick' = [g |-> g, k |-> k, failed |-> failed]

Ticks(g, k) == Ticked(g, k, {})

(***************************************************************************)
(* Periodic tasks: collectMarketData, monitorRisk, monitorAccount          *)
(***************************************************************************)
\* quote is the close of the latest kline the venue returns for sym, 0 when
\* GetSymbolPrice or GetKlines fails or no kline is returned
updateMarketDataClearing(md, sym, quote) == quote

updateMarketData(md, sym, quote) == IF quote # 0 THEN quote ELSE md[sym]

\* SaveMarketData of the kline just cached, unless the fetch or the save failed
SaveMarketData(rows, sym, quote, saved) == IF quote # 0 /\ saved THEN quote ELSE rows[sym]

\* unsaved: the symbols whose SaveMarketData fails
MarketTick(g, quotes, unsaved) ==
    LET failed == {s \in Symbols : quotes[s] = 0}
        n == Cardinality(failed) + Cardinality(unsaved)
    IN  /\ Ticked(g, "market", failed)
        /\ unsaved \cap failed = {}
        /\ n <= faultsLeft
        /\ faultsLeft' = faultsLeft - n
        /\ marketData' = [s \in Symbols |-> updateMarketData(marketData, s, quotes[s])]
        /\ marketRows' = [s \in Symbols |->
                             SaveMarketData(marketRows, s, quotes[s], s \notin unsaved)]
        /\ UNCHANGED <<cfgVars, lifeVars, taskVars, positions, orders, metrics, account,
                       venueVars, statVars, lossDay, lossSum, rm, now, startsLeft, gateVars,
                       stratVars>>

\* win rate in whole percent
WinRate(wins, total) == IF total > 0 THEN (wins * 100) \div total ELSE 0

\* updateRiskMetrics; saved = FALSE: SaveRiskMetric fails
RiskTick(g, saved) ==
    /\ Ticks(g, "risk")
    /\ saved \/ faultsLeft > 0
    /\ faultsLeft' = IF saved THEN faultsLeft ELSE faultsLeft - 1
    /\ metrics' = IF saved THEN WinRate(winningTrades, totalTrades) ELSE metrics
    /\ UNCHANGED <<cfgVars, lifeVars, taskVars, positions, orders, marketRows, account, venueVars,
                   statVars, lossDay, lossSum, marketData, rm, now, startsLeft, gateVars, stratVars>>

\* updateAccountInfo; balance is the wallet balance of the snapshot, 0 when
\* GetAccountInfo or UpdateAccount fails
AccountTick(g, balance) ==
    /\ Ticks(g, "account")
    /\ balance # 0 \/ faultsLeft > 0
    /\ faultsLeft' = IF balance # 0 THEN faultsLeft ELSE faultsLeft - 1
    /\ account' = IF balance # 0 THEN balance ELSE account
    /\ UNCHANGED <<cfgVars, lifeVars, taskVars, positions, orders, marketRows, metrics, venueVars,
                   statVars, lossDay, lossSum, marketData, rm, now, startsLeft, gateVars, stratVars>>

(***************************************************************************)
(* Decision task: tradingLoop, processTradingSignals, processSymbolSignals *)
(***************************************************************************)
\* after symbol sym: the next symbol of config.Symbols, or back to the select
NextSymbolAgain(g, sym) ==
    /\ loop' = [loop EXCEPT ![g] = [IdleLoop EXCEPT !.step = "load", !.sym = sym]]
    /\ UNCHANGED task

NextSymbol(g, sym) ==
    IF sym < config.Symbols
    THEN /\ loop' = [loop EXCEPT ![g] = [IdleLoop EXCEPT !.step = "load", !.sym = sym + 1]]
         /\ UNCHANGED task
    ELSE /\ loop' = [loop EXCEPT ![g] = IdleLoop]
         /\ task' = [task EXCEPT ![g]["trading"] =
                        IF TaskCtxDone(g) THEN "exited" ELSE "wait"]

\* processTradingSignals returns at once in paper-trading mode
PaperSkips(paper) == paper

TradingBegin(g) ==
    /\ Ticks(g, "trading")
    /\ IF PaperSkips(config.EnablePaperTrading)
       THEN UNCHANGED <<task, loop>>
       ELSE /\ task' = [task EXCEPT ![g]["trading"] = "work"]
            /\ loop' = [loop EXCEPT ![g] = [IdleLoop EXCEPT !.step = "load", !.sym = 1]]
    /\ evals' = [evals EXCEPT ![g] = [s \in Symbols |-> << >>]]
    /\ UNCHANGED <<cfgVars, lifeVars, storeVars, venueVars, statVars, lossDay, lossSum,
                   marketData, rm, now, faultsLeft, startsLeft, gateVars, stratVars>>

\* getMarketData and repository.GetPosition(symbol, "LONG"); dbOk = FALSE is a
\* transport error of GetPosition
TradingLoad(g, dbOk) ==
    /\ loop[g].step = "load"
    /\ dbOk \/ (faultsLeft > 0 /\ marketData[loop[g].sym] # 0)
    /\ faultsLeft' = IF dbOk THEN faultsLeft ELSE faultsLeft - 1
    /\ LET sym == loop[g].sym
       IN  IF marketData[sym] = 0 \/ ~dbOk
           THEN NextSymbol(g, sym)
           ELSE /\ loop' = [loop EXCEPT ![g] = [IdleLoop EXCEPT !.step = "eval", !.sym = sym,
                                                   !.pos = GetPosition(sym, "LONG"),
                                                   !.price = marketData[sym]]]
                /\ UNCHANGED task
    /\ UNCHANGED <<cfgVars, lifeVars, storeVars, venueVars, statVars, obsVars, evals,
                   marketData, rm, now, ticksLeft, startsLeft, gateVars, stratVars>>

\* the signal the SMA and RSI variants build when they buy
BuySignal(price) ==
    [Action |-> "BUY", Quantity |-> PositionValue \div price, Price |-> price]

OrderInfo(sym, sig) ==
    [Symbol |-> sym, Side |-> "BUY", Quantity |-> sig.Quantity, Price |-> sig.Price]

\* processSymbolSignals goes on to executeBuyOrder only for a BUY signal that
\* ValidateOrder approved
BuyGateWithoutRisk(action, approved) == action = "BUY"

BuyGateOnce(action, approved) == action = "BUY" /\ approved /\ venue = << >>

BuyGate(action, approved) == action = "BUY" /\ approved

SellGateWithRisk(action) == action = "SELL" /\ isTradingAllowed(rm, riskConfig)

\* sellSignal != nil && sellSignal.Action == "SELL": nothing else stands
\* between the signal and executeSellOrder
SellGate(action) == action = "SELL"

\* position != nil && position.Status == "OPEN": GetPosition returns OPEN rows only
HoldsOpen(pos) == pos # 0

SeeksBuyAlways(pos) == TRUE

\* position == nil || position.Status != "OPEN", on the position as it was
\* loaded: executeSellOrder closes the row, not the struct it was given
SeeksBuy(pos) == ~HoldsOpen(pos)

\* the second if of processSymbolSignals, reached from the first
AfterSell(g, sym) ==
    IF SeeksBuy(loop[g].pos)
    THEN /\ loop' = [loop EXCEPT ![g].step = "eval2", ![g].signal = "HOLD"]
         /\ UNCHANGED task
    ELSE NextSymbol(g, sym)

\* the strategy is asked (ShouldSell for a position loaded OPEN, else ShouldBuy)
\* and answers action; a BUY is put to ValidateOrder
TradingEval(g, action) ==
    /\ loop[g].step \in {"eval", "eval2"}
    /\ LET sym == loop[g].sym
           approved == ValidateOrder(rm, riskConfig, OrderInfo(sym, BuySignal(loop[g].price)), now)
       IN  IF loop[g].step = "eval" /\ HoldsOpen(loop[g].pos)
           THEN /\ action \in {"SELL", "HOLD", "ERROR"}
                /\ evals' = [evals EXCEPT ![g][sym] = Append(@, "ShouldSell")]
                /\ IF SellGate(action)
                   THEN loop' = [loop EXCEPT ![g].step = "place", ![g].signal = "SELL"]
                        /\ UNCHANGED task
                   ELSE AfterSell(g, sym)
                /\ UNCHANGED rm
           ELSE /\ action \in {"BUY", "HOLD", "ERROR"}
                /\ evals' = [evals EXCEPT ![g][sym] = Append(@, "ShouldBuy")]
                /\ rm' = IF action = "BUY" THEN resetDailyCountersIfNeeded(rm, now) ELSE rm
                /\ IF BuyGate(action, approved)
                   THEN loop' = [loop EXCEPT ![g].step = "place", ![g].signal = "BUY"]
                        /\ UNCHANGED task
                   ELSE NextSymbol(g, sym)
    /\ UNCHANGED <<cfgVars, lifeVars, storeVars, venueVars, statVars, obsVars,
                   marketData, now, ticksLeft, faultsLeft, startsLeft, gateVars, stratVars>>

VenueCall(sym, side, qty, status) ==
    [symbol |-> sym, side |-> side, quantity |-> qty, origin |-> "decision",
     status |-> status]

OrderRow(sym, side, status) == [symbol |-> sym, side |-> side, status |-> status]

\* executeSellOrder for the position loaded; o is what the venue and the
\* repository answer
executeSellOrder(g, o) ==
    LET sym == loop[g].sym
        id == loop[g].pos
        size == positions[id].size
        accepted == o.status # "ERROR"
        filled == o.status = "FILLED"
        pnl == (o.avg - positions[id].entryPrice) * size
        closed == filled /\ o.posSaved /\ KeyFree(sym, "LONG", "CLOSED", id)
    IN  /\ venue' = Append(venue, VenueCall(sym, "SELL", size, o.status))
        /\ orders' = IF accepted /\ o.orderSaved
                     THEN Append(orders, OrderRow(sym, "SELL", o.status)) ELSE orders
        /\ positions' = IF closed THEN ClosePosition(id, pnl) ELSE positions
        /\ dailyPnL' = IF filled THEN dailyPnL + pnl ELSE dailyPnL
        /\ winningTrades' = IF filled /\ pnl > 0 THEN winningTrades + 1 ELSE winningTrades
        /\ losingTrades' = IF filled /\ ~(pnl > 0) THEN losingTrades + 1 ELSE losingTrades
        /\ lossDay' = IF filled THEN DateOf(now) ELSE lossDay
        /\ lossSum' = IF filled
                      THEN (IF lossDay = DateOf(now) THEN lossSum ELSE 0)
                           + (IF pnl < 0 THEN -pnl ELSE 0)
                      ELSE lossSum
        /\ UNCHANGED totalTrades

\* executeBuyOrder for the approved signal
executeBuyOrder(g, o) ==
    LET sym == loop[g].sym
        sig == BuySignal(loop[g].price)
        accepted == o.status # "ERROR"
        filled == o.status = "FILLED"
        created == filled /\ o.posSaved /\ KeyFree(sym, "LONG", "OPEN", 0)
    IN  /\ venue' = Append(venue, VenueCall(sym, "BUY", sig.Quantity, o.status))
        /\ orders' = IF accepted /\ o.orderSaved
                     THEN Append(orders, OrderRow(sym, "BUY", o.status)) ELSE orders
        /\ positions' = IF created
                        THEN CreatePosition(Position(sym, sig.Quantity, o.avg))
                        ELSE positions
        /\ totalTrades' = IF accepted THEN totalTrades + 1 ELSE totalTrades
        /\ UNCHANGED <<dailyPnL, winningTrades, losingTrades, lossDay, lossSum>>

\* what PlaceOrder, CreateOrder and CreatePosition/ClosePosition can answer:
\* the call fails, or the order is left unfilled, or it is filled at avg
Outcomes ==
    {[status |-> "ERROR", avg |-> 0, orderSaved |-> TRUE, posSaved |-> TRUE]}
    \cup {[status |-> "NEW", avg |-> 0, orderSaved |-> b, posSaved |-> TRUE] : b \in BOOLEAN}
    \cup {[status |-> "FILLED", avg |-> a, orderSaved |-> b, posSaved |-> c] :
            a \in Prices, b \in BOOLEAN, c \in BOOLEAN}

Failures(o) ==
    (IF o.status = "ERROR" THEN 1 ELSE 0) + (IF o.orderSaved THEN 0 ELSE 1)
    + (IF o.posSaved THEN 0 ELSE 1)

TradingPlace(g, o) ==
    /\ loop[g].step = "place"
    /\ Failures(o) <= faultsLeft
    /\ faultsLeft' = faultsLeft - Failures(o)
    /\ IF loop[g].signal = "SELL"
       THEN executeSellOrder(g, o) /\ AfterSell(g, loop[g].sym)
       ELSE executeBuyOrder(g, o) /\ NextSymbol(g, loop[g].sym)
    /\ UNCHANGED <<cfgVars, lifeVars, marketRows, metrics, account, initCalls, lateIter,
                   lastTick, evals,
                   marketData, rm, now, ticksLeft, startsLeft, gateVars, stratVars>>

\* time passes
AdvanceClock(limit) ==
    /\ now < limit
    /\ now' = now + 1
    /\ UNCHANGED <<cfgVars, lifeVars, taskVars, storeVars, venueVars, statVars, obsVars,
                   marketData, rm, ticksLeft, faultsLeft, startsLeft, gateVars, stratVars>>

(***************************************************************************)
(* The engine fields the goroutines share, and the mutex each access holds *)
(***************************************************************************)
Access(g, k, field, write, locks) ==
    [who |-> <<g, k>>, field |-> field, write |-> write, locks |-> locks]

\* the goroutine of task k of generation g is in its select with a live
\* context: its body runs as soon as the ticker fires
CanTick(g, k) == Blocked(task[g][k]) /\ ~TaskCtxDone(g)

\* updateMarketData stores the snapshot under marketDataMu.Lock
MarketAccesses(g) ==
    IF CanTick(g, "market")
    THEN {Access(g, "market", "marketData", TRUE, {"marketDataMu"})}
    ELSE {}

\* getMarketData reads under marketDataMu.RLock; executeBuyOrder and
\* executeSellOrder update the counters holding no mutex
TradingAccesses(g) ==
    CASE loop[g].step = "load" ->
            {Access(g, "trading", "marketData", FALSE, {"marketDataMu"})}
      [] loop[g].step = "place" /\ loop[g].signal = "BUY" ->
            {Access(g, "trading", "totalTrades", TRUE, {})}
      [] loop[g].step = "place" /\ loop[g].signal = "SELL" ->
            {Access(g, "trading", f, TRUE, {}) :
                f \in {"dailyPnL", "winningTrades", "losingTrades"}}
      [] OTHER -> {}

\* updateRiskMetrics reads the counters holding no mutex
RiskAccesses(g) ==
    IF CanTick(g, "risk")
    THEN {Access(g, "risk", f, FALSE, {}) :
             f \in {"dailyPnL", "totalTrades", "winningTrades", "losingTrades"}}
    ELSE {}

\* the accesses the running goroutines can perform next
Accesses == UNION {MarketAccesses(g) \cup TradingAccesses(g) \cup RiskAccesses(g) : g \in Gens}

(***************************************************************************)
(* What the collaborators can answer                                       *)
(***************************************************************************)
Quotes == [Symbols -> Prices \cup {0}]
Balances == {0, 1}
\* ERROR: ShouldBuy or ShouldSell returns an error
Actions == {"BUY", "SELL", "HOLD", "ERROR"}

Next ==
    \/ Start
    \/ \E loadOk \in BOOLEAN : \E fails \in SUBSET GetAllPositions : Stop(loadOk, fails)
    \/ \E g \in Gens : CallerCancel(g)
    \/ \E g \in Gens : \E quotes \in Quotes : \E unsaved \in SUBSET Symbols :
          MarketTick(g, quotes, unsaved)
    \/ \E g \in Gens : \E saved \in BOOLEAN : RiskTick(g, saved)
    \/ \E g \in Gens : \E balance \in Balances : AccountTick(g, balance)
    \/ \E g \in Gens : TradingBegin(g)
    \/ \E g \in Gens : \E dbOk \in BOOLEAN : TradingLoad(g, dbOk)
    \/ \E g \in Gens : \E action \in Actions : TradingEval(g, action)
    \/ \E g \in Gens : \E o \in Outcomes : TradingPlace(g, o)
    \/ AdvanceClock(MaxNow)

Spec == Init /\ [][Next]_vars

(***************************************************************************)
(* A live engine for one symbol that is started, stopped and started       *)
(* again: no paper mode, an empty store, collaborators that do not fail.   *)
(***************************************************************************)
InitRestart ==
    /\ \E schema \in BOOLEAN :
          NewEngine(1, FALSE, DefaultMaxPositionSize, << >>, schema)
    /\ minOrderValue = DefaultMinOrderValue
    /\ startsLeft = MaxStarts + 1
    /\ ticksLeft = MaxTicks + 1
    /\ faultsLeft = 0

SpecRestart == InitRestart /\ [][Next]_vars

(***************************************************************************)
(* A live engine for one symbol whose store may hold the rows of an        *)
(* earlier run, one closed and one still open, and whose configuration may *)
(* ask for a minimum order value above what the strategies ever order.     *)
(***************************************************************************)
ClosedPosition(sym, size, entry, pnl) ==
    [Position(sym, size, entry) EXCEPT !.status = "CLOSED", !.closedPnL = pnl]

LedgerStores ==
    {<< >>,
     <<ClosedPosition(1, PositionValue \div 100, 100, 0), Position(1, PositionValue \div 200, 200)>>}

MinOrderValues == {DefaultMinOrderValue, 2 * PositionValue}

InitLedger ==
    /\ \E store \in LedgerStores, schema \in BOOLEAN :
          NewEngine(1, FALSE, DefaultMaxPositionSize, store, schema)
    /\ minOrderValue \in MinOrderValues
    /\ startsLeft = MaxStarts
    /\ ticksLeft = MaxTicks
    /\ faultsLeft = MaxFaults

SpecLedger == InitLedger /\ [][Next]_vars

(***************************************************************************)
(* A live engine for one symbol that is given one tick more, enough for a  *)
(* market-data iteration and two decision iterations, with a              *)
(* max_position_size that lets the RiskManager approve or reject.          *)
(***************************************************************************)
InitRetry ==
    /\ \E size \in PositionSizes : NewEngine(1, FALSE, size, << >>, FALSE)
    /\ minOrderValue = DefaultMinOrderValue
    /\ startsLeft = MaxStarts
    /\ ticksLeft = MaxTicks + 1
    /\ faultsLeft = MaxFaults

SpecRetry == InitRetry /\ [][Next]_vars

(***************************************************************************)
(* A live engine configured with one symbol more than ExposureMultiple, in *)
(* a market where every symbol trades at one price and the strategy buys   *)
(* whatever it is asked about, every order is filled at the price of its   *)
(* signal and no collaborator fails.                                       *)
(***************************************************************************)
InitExposure ==
    /\ NewEngine(ExposureMultiple + 1, FALSE, DefaultMaxPositionSize, << >>, FALSE)
    /\ minOrderValue = DefaultMinOrderValue
    /\ startsLeft = MaxStarts
    /\ ticksLeft = MaxTicks
    /\ faultsLeft = 0

FlatQuotes == {[s \in Symbols |-> p] : p \in Prices}

FilledAt(price) == [status |-> "FILLED", avg |-> price, orderSaved |-> TRUE, posSaved |-> TRUE]

NextExposure ==
    \/ Start
    \/ Stop(TRUE, {})
    \/ \E g \in Gens : CallerCancel(g)
    \/ \E g \in Gens : \E quotes \in FlatQuotes : MarketTick(g, quotes, {})
    \/ \E g \in Gens : RiskTick(g, TRUE)
    \/ \E g \in Gens : AccountTick(g, 1)
    \/ \E g \in Gens : TradingBegin(g)
    \/ \E g \in Gens : TradingLoad(g, TRUE)
    \/ \E g \in Gens : TradingEval(g, "BUY")
    \/ \E g \in Gens : TradingPlace(g, FilledAt(loop[g].price))
    \/ AdvanceClock(MaxNow)

SpecExposure == InitExposure /\ [][NextExposure]_vars

(***************************************************************************)
(* The RiskManager driven through its exported methods by a caller other   *)
(* than the engine.                                                        *)
(***************************************************************************)
engineVars == <<config, strategyType, minOrderValue, uniqueKey, lockVars, lifeVars, taskVars, storeVars, venueVars, statVars,
                obsVars, stratVars, marketData, startsLeft, ticksLeft, faultsLeft>>

RiskConfigs ==
    [MaxPositionSize : {100, 200}, MaxDailyLoss : {50}, RiskPerTrade : {1},
     MaxOpenPositions : {0, 1}, MinOrderValue : {0, 15}, MaxOrderValue : {0, 100},
     StopLossPercent : {DefaultStopLossPercent},
     TakeProfitPercent : {DefaultTakeProfitPercent}]

\* notional values 5, 15, 50 and 150
RiskOrders == [Symbol : {1}, Side : {"BUY"}, Quantity : {1, 3}, Price : {5, 50}]
Losses == {-50, 50}
Exposures == {0, 900, 1900}
MaxLossTracked == 100
MaxTradesTracked == 2

InitRisk ==
    /\ EngineFields(1, FALSE, DefaultMaxPositionSize, << >>, FALSE)
    /\ minOrderValue = DefaultMinOrderValue
    /\ Selected(DefaultStrategyType, NoParameters, 1, 0)
    /\ \E c \in RiskConfigs :
          /\ riskConfig = c
          /\ rm = NewRiskManager(c, 0)
    /\ startsLeft = 0
    /\ ticksLeft = 0
    /\ faultsLeft = 0

Called(op, ret, order) == [op |-> op, ret |-> ret, order |-> order]

\* the call performed the daily reset
Resets(r, t) == resetDailyCountersIfNeeded(r, t) # r

AfterValidateOrderCounting(r, t) ==
    [resetDailyCountersIfNeeded(r, t) EXCEPT !.dailyTrades = @ + 1]

\* the RiskManager ValidateOrder leaves behind: it calls
\* resetDailyCountersIfNeeded and then only reads
AfterValidateOrder(r, t) == resetDailyCountersIfNeeded(r, t)

CallValidateOrder(order) ==
    /\ rm' = AfterValidateOrder(rm, now)
    /\ call' = Called("ValidateOrder", ValidateOrder(rm, riskConfig, order, now),
                      [Quantity |-> order.Quantity, Price |-> order.Price])
    /\ latched' = (latched /\ ~Resets(rm, now))
    /\ UNCHANGED <<stopDate, closeCheck>>
    /\ UNCHANGED <<engineVars, riskConfig, now>>

UpdateDailyLoss(r, loss, t) ==
    [resetDailyCountersIfNeeded(r, t) EXCEPT !.dailyLoss = @ + loss]

CallUpdateDailyLoss(loss) ==
    /\ UpdateDailyLoss(rm, loss, now).dailyLoss \in (-MaxLossTracked)..MaxLossTracked
    /\ rm' = UpdateDailyLoss(rm, loss, now)
    /\ call' = Called("UpdateDailyLoss", TRUE, NoCall.order)
    /\ latched' = (latched /\ ~Resets(rm, now))
    /\ UNCHANGED <<stopDate, closeCheck>>
    /\ UNCHANGED <<engineVars, riskConfig, now>>

UpdateDailyTrades(r, t) ==
    [resetDailyCountersIfNeeded(r, t) EXCEPT !.dailyTrades = @ + 1]

CallUpdateDailyTrades ==
    /\ UpdateDailyTrades(rm, now).dailyTrades <= MaxTradesTracked
    /\ rm' = UpdateDailyTrades(rm, now)
    /\ call' = Called("UpdateDailyTrades", TRUE, NoCall.order)
    /\ latched' = (latched /\ ~Resets(rm, now))
    /\ UNCHANGED <<stopDate, closeCheck>>
    /\ UNCHANGED <<engineVars, riskConfig, now>>

UpdateExposure(r, exposure) == [r EXCEPT !.totalExposure = exposure]

CallUpdateExposure(exposure) ==
    /\ rm' = UpdateExposure(rm, exposure)
    /\ call' = Called("UpdateExposure", TRUE, NoCall.order)
    /\ UNCHANGED <<engineVars, riskConfig, now, latched, stopDate, closeCheck>>

EmergencyStop(r, c) == [r EXCEPT !.dailyLoss = c.MaxDailyLoss]

CallEmergencyStop ==
    /\ rm' = EmergencyStop(rm, riskConfig)
    /\ call' = Called("EmergencyStop", TRUE, NoCall.order)
    /\ latched' = TRUE
    /\ stopDate' = DateOf(now)
    /\ UNCHANGED closeCheck
    /\ UNCHANGED <<engineVars, riskConfig, now>>

\* GetRiskMetrics: what it reports as TradingAllowed
CallGetRiskMetrics ==
    /\ rm' = resetDailyCountersIfNeeded(rm, now)
    /\ call' = Called("GetRiskMetrics", isTradingAllowed(rm', riskConfig), NoCall.order)
    /\ latched' = (latched /\ ~Resets(rm, now))
    /\ UNCHANGED <<stopDate, closeCheck>>
    /\ UNCHANGED <<engineVars, riskConfig, now>>

NextRisk ==
    \/ \E order \in RiskOrders : CallValidateOrder(order)
    \/ \E loss \in Losses : CallUpdateDailyLoss(loss)
    \/ CallUpdateDailyTrades
    \/ \E exposure \in Exposures : CallUpdateExposure(exposure)
    \/ CallEmergencyStop
    \/ CallGetRiskMetrics
    \/ AdvanceClock(MaxNow + ClockPerDay)

SpecRisk == InitRisk /\ [][NextRisk]_vars

(***************************************************************************)
(* A live engine for one symbol whose RiskManager is also reached by an    *)
(* operator who can call EmergencyStop at any moment.                      *)
(***************************************************************************)
InitHalt ==
    /\ \E store \in InitialStores :
          NewEngine(1, FALSE, DefaultMaxPositionSize, store, FALSE)
    /\ minOrderValue = DefaultMinOrderValue
    /\ startsLeft = MaxStarts
    /\ ticksLeft = MaxTicks
    /\ faultsLeft = 0

NextHalt == Next \/ CallEmergencyStop

SpecHalt == InitHalt /\ [][NextHalt]_vars

(***************************************************************************)
(* Start and Stop statement by statement, called by several goroutines at  *)
(* once: e.mu.Lock(), the test and the assignment of isRunning, the body,  *)
(* and the deferred e.mu.Unlock() at the return.                           *)
(***************************************************************************)
CanLockAlways(holder) == TRUE

\* e.mu.Lock() returns only when no goroutine holds the mutex
CanLock(holder) == holder = 0

At(c, op, step) == callers[c].op = op /\ callers[c].step = step

Advance(c, step) == [callers EXCEPT ![c].step = step]

Returns(c, err) == [callers EXCEPT ![c].step = "done", ![c].err = err]

lockFrame == <<config, strategyType, minOrderValue, uniqueKey, riskConfig, loop, evals,
               storeVars, statVars, obsVars, marketData, rm, now, ticksLeft, faultsLeft,
               gateVars, stratVars, callerDone>>

\* a goroutine calls Start or Stop
Invoke(c, op) ==
    /\ callers[c].step \in {"idle", "done"}
    /\ callers' = [callers EXCEPT ![c] = [op |-> op, step |-> "lock", err |-> "none"]]
    /\ UNCHANGED <<lockFrame, mu, isRunning, ctxDone, gens, result, task, venueVars, startsLeft>>

Lock(c) ==
    /\ callers[c].step = "lock"
    /\ CanLock(mu)
    /\ mu' = c
    /\ callers' = Advance(c, "check")
    /\ UNCHANGED <<lockFrame, isRunning, ctxDone, gens, result, task, venueVars, startsLeft>>

\* if e.isRunning { return fmt.Errorf("trading engine is already running") }
StartCheck(c) ==
    /\ At(c, "Start", "check")
    /\ IF isRunning
       THEN /\ callers' = Returns(c, "already running")
            /\ result' = [op |-> "Start", err |-> "already running",
                          loaded |-> FALSE, attempted |-> {}]
            /\ mu' = 0
       ELSE /\ callers' = Advance(c, "set")
            /\ UNCHANGED <<result, mu>>
    /\ UNCHANGED <<lockFrame, isRunning, ctxDone, gens, task, venueVars, startsLeft>>

\* e.isRunning = true
StartSet(c) ==
    /\ At(c, "Start", "set")
    /\ isRunning' = TRUE
    /\ callers' = Advance(c, "launch")
    /\ UNCHANGED <<lockFrame, mu, ctxDone, gens, result, task, venueVars, startsLeft>>

\* initializeSymbols, the four go statements, return nil
StartLaunch(c) ==
    /\ At(c, "Start", "launch")
    /\ startsLeft > 0
    /\ startsLeft' = startsLeft - 1
    /\ initCalls' = initCalls + 2 * config.Symbols
    /\ gens' = gens + 1
    /\ task' = [task EXCEPT ![gens + 1] =
                   [k \in Kinds |-> IF TaskCtxDone(gens + 1) THEN "exited" ELSE "wait"]]
    /\ result' = [op |-> "Start", err |-> "nil", loaded |-> FALSE, attempted |-> {}]
    /\ callers' = Returns(c, "nil")
    /\ mu' = 0
    /\ UNCHANGED <<lockFrame, isRunning, ctxDone, venue>>

\* if !e.isRunning { return nil }
StopCheck(c) ==
    /\ At(c, "Stop", "check")
    /\ IF ~isRunning
       THEN /\ callers' = Returns(c, "nil")
            /\ result' = [op |-> "Stop", err |-> "nil", loaded |-> FALSE, attempted |-> {}]
            /\ mu' = 0
       ELSE /\ callers' = Advance(c, "cancel")
            /\ UNCHANGED <<result, mu>>
    /\ UNCHANGED <<lockFrame, isRunning, ctxDone, gens, task, venueVars, startsLeft>>

\* e.cancel(), closeAllPositions, e.isRunning = false, return nil
StopClose(c) ==
    /\ At(c, "Stop", "cancel")
    /\ LET closed == closeAllPositions(TRUE, {})
       IN  /\ venue' = venue \o closed.calls
           /\ result' = [op |-> "Stop", err |-> "nil", loaded |-> closed.loaded,
                         attempted |-> closed.attempted]
    /\ ctxDone' = TRUE
    /\ isRunning' = FALSE
    /\ callers' = Returns(c, "nil")
    /\ mu' = 0
    /\ UNCHANGED <<lockFrame, gens, task, initCalls, startsLeft>>

InitCallers ==
    /\ NewEngine(1, FALSE, DefaultMaxPositionSize, << >>, FALSE)
    /\ minOrderValue = DefaultMinOrderValue
    /\ startsLeft = MaxStarts + 1
    /\ ticksLeft = 0
    /\ faultsLeft = 0

NextCallers ==
    \/ \E c \in Callers : \E op \in {"Start", "Stop"} : Invoke(c, op)
    \/ \E c \in Callers : Lock(c)
    \/ \E c \in Callers : StartCheck(c)
    \/ \E c \in Callers : StartSet(c)
    \/ \E c \in Callers : StartLaunch(c)
    \/ \E c \in Callers : StopCheck(c)
    \/ \E c \in Callers : StopClose(c)

SpecCallers == InitCallers /\ [][NextCallers]_vars

(***************************************************************************)
(* ShouldClosePosition, called with positions whose value and unrealized   *)
(* PnL follow from their entry price, current price and size.              *)
(***************************************************************************)
\* entryPrice * (1 - stopLossPercent/100) for BUY or LONG, (1 + ...) otherwise,
\* times 100
CalculateStopLoss100(c, entryPrice, side) ==
    IF side \in {"BUY", "LONG"} THEN entryPrice * (100 - c.StopLossPercent)
    ELSE entryPrice * (100 + c.StopLossPercent)

CalculateTakeProfit100(c, entryPrice, side) ==
    IF side \in {"BUY", "LONG"} THEN entryPrice * (100 + c.TakeProfitPercent)
    ELSE entryPrice * (100 - c.TakeProfitPercent)

AbsOf(x) == IF x < 0 THEN -x ELSE x

\* math.Abs(UnrealizedPnL / Value) * 100 > StopLossPercent * 2, for Value > 0
MaximumLossExceeded(c, position) ==
    AbsOf(position.UnrealizedPnL) * 100 > c.StopLossPercent * 2 * position.Value

Answer(close, reason) == [close |-> close, reason |-> reason]

ShouldClosePosition(c, position) ==
    IF position.Side = "LONG"
       /\ position.CurrentPrice * 100 <= CalculateStopLoss100(c, position.EntryPrice, "BUY")
    THEN Answer(TRUE, "Stop loss triggered")
    ELSE IF position.Side = "SHORT"
       /\ position.CurrentPrice * 100 >= CalculateStopLoss100(c, position.EntryPrice, "SELL")
    THEN Answer(TRUE, "Stop loss triggered")
    ELSE IF position.Side = "LONG"
       /\ position.CurrentPrice * 100 >= CalculateTakeProfit100(c, position.EntryPrice, "BUY")
    THEN Answer(TRUE, "Take profit triggered")
    ELSE IF position.Side = "SHORT"
       /\ position.CurrentPrice * 100 <= CalculateTakeProfit100(c, position.EntryPrice, "SELL")
    THEN Answer(TRUE, "Take profit triggered")
    ELSE IF MaximumLossExceeded(c, position)
    THEN Answer(TRUE, "Maximum loss exceeded")
    ELSE Answer(FALSE, "")

\* price moves in tenths of a percent of the entry price
PriceMoves == {-60, -45, -30, -10, 0, 10, 30, 45, 60}
EntryPrices == {1000, 2000}
Sizes == {1, 2}

\* UnrealizedPnL of a position of the side; Value is its cost (atCost) or its
\* market value
PortfolioPosition(side, entry, move, size, atCost) ==
    LET current == entry + (entry * move) \div 1000
    IN  [Side |-> side, Size |-> size, EntryPrice |-> entry, CurrentPrice |-> current,
         Value |-> size * (IF atCost THEN entry ELSE current),
         UnrealizedPnL |-> size * (IF side = "LONG" THEN current - entry
                                   ELSE entry - current)]

PortfolioPositions ==
    {PortfolioPosition(side, entry, move, size, atCost) :
        side \in {"LONG", "SHORT"}, entry \in EntryPrices, move \in PriceMoves,
        size \in Sizes, atCost \in BOOLEAN}

CallShouldClosePosition(position) ==
    /\ closeCheck' = [position |-> position,
                      close |-> ShouldClosePosition(riskConfig, position).close,
                      reason |-> ShouldClosePosition(riskConfig, position).reason]
    /\ UNCHANGED <<engineVars, riskConfig, rm, now, call, latched, stopDate>>

InitClose ==
    /\ NewEngine(1, FALSE, DefaultMaxPositionSize, << >>, FALSE)
    /\ minOrderValue = DefaultMinOrderValue
    /\ startsLeft = 0
    /\ ticksLeft = 0
    /\ faultsLeft = 0

NextClose == \E position \in PortfolioPositions : CallShouldClosePosition(position)

SpecClose == InitClose /\ [][NextClose]_vars

(***************************************************************************)
(* The Strategy instance on its own: ShouldBuy and ShouldSell calls        *)
(***************************************************************************)
InitStrategy ==
    /\ EngineFields(NumSymbols, FALSE, DefaultMaxPositionSize, << >>, FALSE)
    /\ minOrderValue = DefaultMinOrderValue
    /\ riskConfig = EngineRiskConfig(DefaultMaxPositionSize)
    /\ rm = NewRiskManager(EngineRiskConfig(DefaultMaxPositionSize), 0)
    /\ startsLeft = 0
    /\ ticksLeft = 0
    /\ faultsLeft = 0
    /\ \/ Selected("simple_moving_average", NoParameters, 1, DefaultSMACalls)
       \/ Selected("simple_moving_average", SmallSMAParameters, NumSymbols, SmallSMACalls)
       \/ Selected("rsi", NoParameters, 1, DefaultRSICalls)
       \/ Selected("rsi", SmallRSIParameters, 1, SmallRSICalls)
       \/ Constructed(NewGridStrategy, NoParameters, NumSymbols, GridCalls)
       \/ Selected("ai", AIParameters, NumSymbols, AICalls)
       \/ \E type \in OtherTypes : Selected(type, NoParameters, 1, FallbackCalls)

\* the call is made for symbol with the current price; afterwards the price moves
Evaluated(symbol, move) ==
    /\ evalsLeft > 0
    /\ evalsLeft' = evalsLeft - 1
    /\ symbol >= feed.symbol /\ symbol <= feed.symbols
    /\ move = feed.move \/ signal.call = "none" \/ feed.turnsLeft > 0
    /\ feed.price + move > 0
    /\ feed' = [feed EXCEPT !.price = feed.price + move, !.move = move,
                            !.turnsLeft = IF move = feed.move \/ signal.call = "none"
                                          THEN @ ELSE @ - 1,
                            !.symbol = symbol]
    /\ priceHistory' = IF KeepsHistory(strategy)
                       THEN [priceHistory EXCEPT ![symbol] =
                                updatePriceHistory(@, feed.price, MaxLength(strategy))]
                       ELSE priceHistory
    /\ UNCHANGED <<strategy, parameters>>

ShouldBuy(symbol, move) ==
    /\ Evaluated(symbol, move)
    /\ grid' = IF strategy.variant = "grid"
               THEN GridAfterBuy(strategy, grid, symbol, feed.price) ELSE grid
    /\ firstPrice' = IF strategy.variant = "grid" /\ firstPrice[symbol] = 0
                     THEN [firstPrice EXCEPT ![symbol] = feed.price] ELSE firstPrice
    /\ signal' = [call |-> "ShouldBuy", symbol |-> symbol, price |-> feed.price,
                  position |-> NoPosition,
                  result |->
                     CASE strategy.variant = "sma" ->
                            SMAShouldBuy(strategy, priceHistory'[symbol], feed.price)
                       [] strategy.variant = "rsi" ->
                            RSIShouldBuy(strategy, priceHistory'[symbol], feed.price)
                       [] strategy.variant = "grid" ->
                            GridShouldBuy(strategy, grid, symbol, feed.price)
                       [] OTHER -> AIShouldBuy]
    /\ UNCHANGED <<cfgVars, lifeVars, taskVars, storeVars, venueVars, statVars, obsVars,
                   gateVars, marketData, rm, now, startsLeft, ticksLeft, faultsLeft>>

ShouldSell(symbol, position, move) ==
    /\ Evaluated(symbol, move)
    /\ signal' = [call |-> "ShouldSell", symbol |-> symbol, price |-> feed.price,
                  position |-> position,
                  result |->
                     CASE strategy.variant = "sma" ->
                            SMAShouldSell(strategy, priceHistory'[symbol], feed.price, position)
                       [] strategy.variant = "rsi" ->
                            RSIShouldSell(strategy, priceHistory'[symbol], feed.price, position)
                       [] strategy.variant = "grid" ->
                            GridShouldSell(strategy, grid, feed.price, position)
                       [] OTHER -> AIShouldSell]
    /\ UNCHANGED <<cfgVars, lifeVars, taskVars, storeVars, venueVars, statVars, obsVars,
                   gateVars, marketData, rm, now, startsLeft, ticksLeft, faultsLeft,
                   grid, firstPrice>>

NextStrategy ==
    \/ \E symbol \in 1..NumSymbols : \E move \in Moves : ShouldBuy(symbol, move)
    \/ \E symbol \in 1..NumSymbols : \E position \in HeldPositions : \E move \in Moves :
          ShouldSell(symbol, position, move)

SpecStrategy == InitStrategy /\ [][NextStrategy]_vars

(***************************************************************************)
(* Properties of the engine                                                *)
(***************************************************************************)
LastCall(v) == v[Len(v)]

DecisionBuyPlaced ==
    /\ Len(venue') = Len(venue) + 1
    /\ LastCall(venue').origin = "decision"
    /\ LastCall(venue').side = "BUY"

Approves(g) ==
    ValidateOrder(rm, riskConfig, OrderInfo(loop[g].sym, BuySignal(loop[g].price)), now)

\* C1: the decision task goes on to place a BUY only for a BUY signal that
\* ValidateOrder approved at that evaluation, a BUY reaches the venue only from
\* such a placement, and an evaluation ValidateOrder rejects is dropped: no
\* venue call, no order row, no position row
C1_BuyOnlyWhenApproved ==
    [][/\ \A g \in Gens :
            (loop[g].step = "eval" /\ loop'[g].step = "place" /\ loop'[g].signal = "BUY")
                => Approves(g)
       /\ DecisionBuyPlaced
            => \E g \in Gens : /\ loop[g].step = "place" /\ loop[g].signal = "BUY"
                               /\ loop[g].sym = LastCall(venue').symbol
                               /\ loop'[g] # loop[g]
       /\ \A g \in Gens :
            (loop[g].step = "eval" /\ loop[g].pos = 0 /\ loop'[g] # loop[g] /\ ~Approves(g))
                => /\ loop'[g].step # "place"
                   /\ UNCHANGED <<venue, orders, positions>>]_vars

C1_Witness ==
    \E i \in DOMAIN venue : venue[i].origin = "decision" /\ venue[i].side = "BUY"

\* C2: in paper-trading mode no order is submitted to the venue and no order
\* row is stored
C2_PaperSubmitsNothing ==
    config.EnablePaperTrading => (venue = << >> /\ orders = << >>)

\* C3: from a running engine no step launches tasks or makes
\* symbol-initialization calls, and a Start call returns "already running"
\* and changes nothing but what the call returned
C3_StartWhileRunning ==
    [][isRunning =>
        /\ gens' = gens
        /\ initCalls' = initCalls
        /\ \A g \in Gens : \A k \in Kinds : task[g][k] = "none" => task'[g][k] = "none"
        /\ (result' # result /\ result'.op = "Start")
              => /\ result'.err = "already running"
                 /\ isRunning'
                 /\ UNCHANGED <<cfgVars, isRunning, ctxDone, gens, callerDone, taskVars,
                                storeVars, venueVars, statVars, obsVars, gateVars,
                                marketData, rm, now, stratVars>>]_vars

C3_Witness ==
    isRunning /\ result.op = "Start" /\ result.err = "already running"

\* C4: no task begins a second iteration after the Stop that ended its
\* engine run (its first tick after Stop may have been due already)
C4_TasksStopAfterStop ==
    \A g \in Gens : \A k \in Kinds : lateIter[g][k] <= 1

\* C5: Stop on a running engine returns nil and leaves it stopped, and when
\* the positions were loaded it has called PlaceOrder once for every OPEN
\* position, whichever of those calls failed
C5_StopBestEffort ==
    [][(isRunning /\ result' # result /\ result'.op = "Stop")
        => /\ ~isRunning'
           /\ result'.err = "nil"
           /\ result'.loaded
                => /\ result'.attempted = GetAllPositions
                   /\ Len(venue') = Len(venue) + Cardinality(GetAllPositions)
                   /\ \A i \in GetAllPositions :
                        \E j \in (Len(venue) + 1)..Len(venue') :
                            /\ venue'[j].origin = "stop"
                            /\ venue'[j].side = "SELL"
                            /\ venue'[j].symbol = positions[i].symbol
                            /\ venue'[j].quantity = positions[i].size
           /\ ~result'.loaded => venue' = venue]_vars

C5_Witness ==
    /\ ~isRunning /\ result.op = "Stop" /\ result.err = "nil"
    /\ \E i, j \in DOMAIN venue :
          /\ i < j
          /\ venue[i].origin = "stop" /\ venue[i].status = "ERROR"
          /\ venue[j].origin = "stop" /\ venue[j].status = "ACCEPTED"

\* C6: at most one OPEN position per (symbol, side)
C6_OneOpenPositionPerSymbol ==
    \A s \in Symbols : Cardinality(OpenIds(s, "LONG")) <= 1

\* C8: while the losses realised by the sells filled on the current calendar
\* day sum to at least MaxDailyLoss, the decision task submits no BUY
C8_NoBuyAfterDailyLoss ==
    [][(lossSum >= riskConfig.MaxDailyLoss /\ lossDay = DateOf(now))
        => ~DecisionBuyPlaced]_vars

RECURSIVE Notional(_)
Notional(ids) ==
    IF ids = {} THEN 0
    ELSE LET i == MinOf(ids)
         IN  positions[i].size * positions[i].entryPrice + Notional(ids \ {i})

\* C9: the notional of the OPEN positions never exceeds RiskManager.maxExposure
C9_ExposureCap ==
    Notional(GetAllPositions) <= rm.maxExposure

(***************************************************************************)
(* Properties of the RiskManager                                           *)
(***************************************************************************)
\* C7: while the latch set by EmergencyStop has not been cleared by a daily
\* reset, ValidateOrder returns false
C7_EmergencyStopLatch ==
    (latched /\ call.op = "ValidateOrder") => ~call.ret

\* the three rejection conditions, on the state ValidateOrder leaves
BelowMinimum == call.order.Quantity * call.order.Price < riskConfig.MinOrderValue
OverExposure == rm.totalExposure + call.order.Quantity * call.order.Price > rm.maxExposure
LossLimitHit == rm.dailyLoss >= riskConfig.MaxDailyLoss

\* C10 as stated: ValidateOrder rejects exactly when the notional is below
\* MinOrderValue, or the projected exposure is above maxExposure, or
\* dailyLoss has reached MaxDailyLoss
C10_RejectsExactlyOnThree ==
    call.op = "ValidateOrder" => (~call.ret <=> (BelowMinimum \/ OverExposure \/ LossLimitHit))

OverPositionSize == call.order.Quantity * call.order.Price > riskConfig.MaxPositionSize
OverMaximum ==
    riskConfig.MaxOrderValue > 0
        /\ call.order.Quantity * call.order.Price > riskConfig.MaxOrderValue
TradeCapHit ==
    riskConfig.MaxOpenPositions > 0 /\ rm.dailyTrades >= riskConfig.MaxOpenPositions

\* C10 amended: ValidateOrder rejects whenever one of the three conditions
\* holds, and of the orders none of the three excludes it approves exactly
\* those whose notional is within MaxPositionSize and within MaxOrderValue
\* when that is set, while the daily trade count is under its cap when one is
\* set
C10_RejectsOnThreeAndMore ==
    call.op = "ValidateOrder" =>
        /\ (BelowMinimum \/ OverExposure \/ LossLimitHit) => ~call.ret
        /\ ~(BelowMinimum \/ OverExposure \/ LossLimitHit)
              => (call.ret <=> ~(OverPositionSize \/ OverMaximum \/ TradeCapHit))

\* Scenario D with an order the other checks let through: exposure 1900 of
\* 2000, notional 150, rejected
C10_Witness ==
    /\ call.op = "ValidateOrder" /\ ~call.ret
    /\ rm.maxExposure = 2000 /\ rm.totalExposure = 1900
    /\ call.order.Quantity * call.order.Price = 150
    /\ ~BelowMinimum /\ ~LossLimitHit /\ ~OverPositionSize /\ ~OverMaximum /\ ~TradeCapHit

\* C11: ValidateOrder returns true exactly when all six checks pass on the
\* state it leaves after the daily reset: trading allowed, notional within
\* [MinOrderValue, MaxOrderValue] (no upper bound when MaxOrderValue is unset),
\* notional within MaxPositionSize, dailyLoss under MaxDailyLoss, projected
\* exposure within maxExposure, risk amount within the risk-per-trade maximum
C11_ApprovedIffSixChecks ==
    call.op = "ValidateOrder" =>
        LET notional == call.order.Quantity * call.order.Price
        IN  call.ret <=>
              /\ ~(riskConfig.MaxOpenPositions > 0
                     /\ rm.dailyTrades >= riskConfig.MaxOpenPositions)
              /\ rm.dailyLoss < riskConfig.MaxDailyLoss
              /\ notional >= riskConfig.MinOrderValue
              /\ riskConfig.MaxOrderValue > 0 => notional <= riskConfig.MaxOrderValue
              /\ notional <= riskConfig.MaxPositionSize
              /\ rm.totalExposure + notional <= rm.maxExposure
              /\ notional * riskConfig.RiskPerTrade
                    <= riskConfig.MaxPositionSize * riskConfig.RiskPerTrade

C11_Witness ==
    /\ call.op = "ValidateOrder" /\ call.ret
    /\ rm.totalExposure > 0
    /\ riskConfig.MinOrderValue > 0 /\ riskConfig.MaxOrderValue > 0
    /\ riskConfig.MaxOpenPositions > 0

ResettingCalls == {"ValidateOrder", "UpdateDailyLoss", "UpdateDailyTrades", "GetRiskMetrics"}

\* C12: a ValidateOrder, UpdateDailyLoss, UpdateDailyTrades or GetRiskMetrics
\* call zeroes dailyLoss and dailyTrades and moves lastResetDate to the time of
\* the call exactly when the date of the call differs from that of
\* lastResetDate, whatever the time of day; on the same date the counters are
\* kept, and no other step touches lastResetDate or lowers dailyTrades
C12_ResetOncePerDay ==
    [][IF now' = now /\ call'.op \in ResettingCalls /\ <<rm, call>>' # <<rm, call>>
       THEN LET newDay == DateOf(now) # DateOf(rm.lastResetDate)
                lossBefore == IF newDay THEN 0 ELSE rm.dailyLoss
                tradesBefore == IF newDay THEN 0 ELSE rm.dailyTrades
            IN  /\ rm'.lastResetDate = IF newDay THEN now ELSE rm.lastResetDate
                /\ rm'.dailyTrades = IF call'.op = "UpdateDailyTrades"
                                     THEN tradesBefore + 1 ELSE tradesBefore
                /\ IF call'.op = "UpdateDailyLoss"
                   THEN rm'.dailyLoss - lossBefore \in Losses
                   ELSE rm'.dailyLoss = lossBefore
       ELSE /\ rm'.lastResetDate = rm.lastResetDate
            /\ rm'.dailyTrades = rm.dailyTrades]_vars

\* a second call on the date of the reset, later in the day, kept the counters
C12_Witness ==
    /\ rm.lastResetDate # 0
    /\ now # rm.lastResetDate /\ DateOf(now) = DateOf(rm.lastResetDate)
    /\ call.op = "GetRiskMetrics"
    /\ rm.dailyTrades > 0 /\ rm.dailyLoss > 0

(***************************************************************************)
(* Properties of the strategy variants                                     *)
(***************************************************************************)
Returned == signal.result

\* the minimum confidence the configuration asks for, else the variant's own
ConfiguredMinimum ==
    IF "minConfidence" \in DOMAIN parameters THEN parameters.minConfidence
    ELSE strategy.minConfidence

InUnitInterval(c) == FLeq(Whole(0), c) /\ FLeq(c, Whole(1))

\* C13 as stated: every variant returns a confidence in [0,1], and an action
\* other than HOLD only with a confidence at least the configured minimum
C13_ConfidenceGatesEveryVariant ==
    signal.call # "none" =>
        /\ InUnitInterval(Returned.Confidence)
        /\ Returned.Action # "HOLD" => FLeq(ConfiguredMinimum, Returned.Confidence)

\* C13 amended: the SMA, RSI and Grid variants return a confidence in [0,1]
\* and an action other than HOLD only with a confidence at least the
\* configured minimum; the AI variant has no minimum and returns BUY from
\* ShouldBuy and SELL from ShouldSell with confidence 0
C13_ConfidenceGatesAllButAI ==
    signal.call # "none" =>
        IF strategy.variant = "ai"
        THEN /\ Returned.Action = (IF signal.call = "ShouldBuy" THEN "BUY" ELSE "SELL")
             /\ FEq(Returned.Confidence, Whole(0))
        ELSE /\ InUnitInterval(Returned.Confidence)
             /\ Returned.Action # "HOLD" => FLeq(ConfiguredMinimum, Returned.Confidence)

\* a crossover strong enough to pass the gate without reaching confidence 1
C13_Witness ==
    /\ strategy.variant = "sma" /\ signal.call = "ShouldBuy"
    /\ Returned.Action = "BUY"
    /\ FLess(Returned.Confidence, Whole(1))

HistoryCap ==
    IF strategy.variant = "sma" THEN strategy.longPeriod + 10 ELSE strategy.period + 20

\* C14: a ShouldBuy or ShouldSell call of the SMA or RSI variant leaves the
\* history of its symbol as the last longPeriod + 10 (SMA) or period + 20
\* (RSI) samples, in arrival order, of the old history followed by the price
\* of the call, and leaves the history of every other symbol alone
C14_HistoryCapped ==
    [][(strategy.variant \in {"sma", "rsi"} /\ evalsLeft' # evalsLeft) =>
        LET sym == signal'.symbol
            arrived == Append(priceHistory[sym], signal'.price)
            kept == priceHistory'[sym]
            evicted == Len(arrived) - Len(kept)
        IN  /\ Len(kept) = IF Len(arrived) <= HistoryCap THEN Len(arrived) ELSE HistoryCap
            /\ \A i \in 1..Len(kept) : kept[i] = arrived[i + evicted]
            /\ \A other \in DOMAIN priceHistory :
                  other # sym => priceHistory'[other] = priceHistory[other]]_vars

\* the history of symbol 1 is full and its first sample has been evicted
C14_Witness ==
    /\ strategy.variant \in {"sma", "rsi"}
    /\ Len(priceHistory[1]) = HistoryCap
    /\ priceHistory[1][1] # StartPrice

\* C15: a ShouldSell call of the SMA or RSI variant at a price 2% or more
\* under, or 5% or more over, the entry price of the position returns SELL
C15_ProtectiveSellAlways ==
    (signal.call = "ShouldSell" /\ strategy.variant \in {"sma", "rsi"}
        /\ \/ (signal.price - signal.position.entryPrice) * 100
                 <= -2 * signal.position.entryPrice
           \/ (signal.price - signal.position.entryPrice) * 100
                 >= 5 * signal.position.entryPrice)
      => Returned.Action = "SELL"

RECURSIVE TailSum(_, _)
\* the sum of the k most recent samples of h
TailSum(h, k) == IF k = 0 THEN 0 ELSE h[Len(h) - k + 1] + TailSum(h, k - 1)

History == priceHistory[signal.symbol]

RECURSIVE GCD(_, _)
GCD(a, b) == IF b = 0 THEN a ELSE GCD(b, a % b)

\* a positive fraction in lowest terms
Lowest(f) == <<f[1] \div GCD(f[1], f[2]), f[2] \div GCD(f[1], f[2])>>

\* C16: SMA ShouldBuy returns BUY exactly when at least longPeriod samples
\* are retained, shortMean > longMean and c = min(10 x (shortMean - longMean)
\* / longMean, 1) >= minConfidence, with confidence c; otherwise HOLD
C16_SMABuyIffCrossover ==
    (strategy.variant = "sma" /\ signal.call = "ShouldBuy") =>
        IF Len(History) < strategy.longPeriod THEN Returned.Action = "HOLD"
        ELSE LET S == TailSum(History, strategy.shortPeriod)
                 L == TailSum(History, strategy.longPeriod)
                 \* shortMean - longMean over longMean, times 10, as num / den
                 num == 10 * (S * strategy.longPeriod - L * strategy.shortPeriod)
                 den == L * strategy.shortPeriod
                 c == IF num >= den THEN <<1, 1>> ELSE <<num, den>>
                 crosses == S * strategy.longPeriod > L * strategy.shortPeriod
                 passes == c[1] * strategy.minConfidence[2]
                              >= strategy.minConfidence[1] * c[2]
             IN  IF crosses /\ passes
                 THEN /\ Returned.Action = "BUY"
                      /\ Lowest(Returned.Confidence) = Lowest(c)
                 ELSE Returned.Action = "HOLD"

\* a BUY computed over windows that have slid past the first samples
C16_Witness ==
    /\ strategy.variant = "sma" /\ signal.call = "ShouldBuy"
    /\ Len(History) > strategy.longPeriod
    /\ Returned.Action = "BUY"

Ascending(h) == \A i \in 2..Len(h) : h[i] > h[i - 1]

Descending(h) == \A i \in 2..Len(h) : h[i] < h[i - 1]

\* the default SMA(10, 20, 0.7) has answered ShouldBuy for the newest of at
\* least 20 strictly ascending prices
ScenarioA ==
    /\ strategy.variant = "sma" /\ parameters = NoParameters
    /\ signal.call = "ShouldBuy"
    /\ Len(History) >= 20
    /\ Ascending(History)

\* C17 as stated: in scenario A the answer is BUY with confidence >= 0.7
C17_AscendingAlwaysBuys ==
    ScenarioA =>
        /\ Returned.Action = "BUY"
        /\ Returned.Confidence[1] * 10 >= 7 * Returned.Confidence[2]

\* C17 amended: in scenario A shortMean > longMean, and the answer is BUY,
\* with confidence >= 0.7, exactly when 10 x (shortMean - longMean) / longMean
\* >= 0.7, and HOLD otherwise
C17_AscendingBuysWhenSteep ==
    ScenarioA =>
        LET S == TailSum(History, 10)
            L == TailSum(History, 20)
        IN  /\ 2 * S > L
            /\ IF 100 * (2 * S - L) >= 7 * L
               THEN /\ Returned.Action = "BUY"
                    /\ Returned.Confidence[1] * 10 >= 7 * Returned.Confidence[2]
               ELSE Returned.Action = "HOLD"

\* the 25th ascending price is answered with BUY
C17_Witness ==
    /\ ScenarioA
    /\ Len(History) = 25
    /\ Returned.Action = "BUY"

RECURSIVE ChangeTotal(_, _, _)
\* the total rise (sign 1) or fall (sign -1) over the k most recent changes of h
ChangeTotal(h, k, sign) ==
    IF k = 0 THEN 0
    ELSE LET change == sign * (h[Len(h) - k + 1] - h[Len(h) - k])
         IN  (IF change > 0 THEN change ELSE 0) + ChangeTotal(h, k - 1, sign)

\* C18: with fewer than period + 1 samples the RSI is 50 and the answer HOLD;
\* otherwise the RSI comes from the rise G and fall F of the most recent
\* period changes: 100 when F = 0, else 100 - 100 / (1 + G / F); 15 strictly
\* decreasing samples with period 14 and oversold 30 give RSI 0 and ShouldBuy
\* answers BUY with confidence 1
C18_RSIFromRecentChanges ==
    (strategy.variant = "rsi" /\ signal.call # "none") =>
        LET rsi == calculateRSI(strategy, History)
            period == strategy.period
        IN  IF Len(History) < period + 1
            THEN rsi[1] = 50 * rsi[2] /\ Returned.Action = "HOLD"
            ELSE LET G == ChangeTotal(History, period, 1)
                     F == ChangeTotal(History, period, -1)
                 IN  /\ F = 0 => rsi[1] = 100 * rsi[2]
                     /\ F # 0 => rsi[1] * (G + F) = 100 * G * rsi[2]
                     /\ (/\ period = 14 /\ strategy.oversold = 30
                         /\ Len(History) = 15 /\ Descending(History)
                         /\ signal.call = "ShouldBuy")
                        => /\ rsi[1] = 0
                           /\ Returned.Action = "BUY"
                           /\ Returned.Confidence[1] = Returned.Confidence[2]

\* scenario B: 15 strictly decreasing prices answered with BUY
C18_Witness ==
    /\ strategy.variant = "rsi" /\ strategy.period = 14 /\ strategy.oversold = 30
    /\ signal.call = "ShouldBuy"
    /\ Len(History) = 15 /\ Descending(History)
    /\ Returned.Action = "BUY"

\* C19: every symbol that has had a ShouldBuy call has numGrids levels laid
\* out at firstPrice x (1 + (i - numGrids / 2) x gridSize), i counted from 0
C19_GridPerSymbol ==
    strategy.variant = "grid" =>
        \A sym \in DOMAIN firstPrice :
            firstPrice[sym] # 0 =>
                /\ Len(grid.positions[sym]) = strategy.numGrids
                /\ \A i \in 0..(strategy.numGrids - 1) :
                      FEq(grid.positions[sym][i + 1].Price,
                          FMul(Whole(firstPrice[sym]),
                               FAdd(Whole(1),
                                    FMul(Whole(i - strategy.numGrids \div 2),
                                         strategy.gridSize))))

DecisionCalls(v) == {i \in DOMAIN v : v[i].origin = "decision"}

\* C20: a step submits at most one decision order; the iteration that
\* submitted it for a symbol, whatever the venue and the repository answered,
\* goes on to a later symbol or ends; and an iteration never goes back to a
\* symbol it has passed
C20_AtMostOncePerTick ==
    [][/\ Cardinality(DecisionCalls(venue')) <= Cardinality(DecisionCalls(venue)) + 1
       /\ Cardinality(DecisionCalls(venue')) = Cardinality(DecisionCalls(venue)) + 1 =>
             \E g \in Gens :
                /\ loop[g].step = "place"
                /\ LastCall(venue').symbol = loop[g].sym
                /\ loop'[g] = IdleLoop \/ loop'[g].sym > loop[g].sym
                /\ loop'[g].step # "place"
       /\ \A g \in Gens :
             loop[g].step # "idle" =>
                \/ loop'[g] = IdleLoop
                \/ loop'[g].sym > loop[g].sym /\ loop'[g].step = "load"
                \/ loop'[g].sym = loop[g].sym
                     /\ <<loop[g].step, loop'[g].step>> \in
                           {<<"load", "load">>, <<"load", "eval">>, <<"eval", "eval">>,
                            <<"eval", "place">>, <<"place", "place">>}]_vars

\* the venue refused the order for symbol 1 and the iteration is at symbol 2
C20_Witness ==
    /\ venue # << >>
    /\ LastCall(venue).origin = "decision"
    /\ LastCall(venue).status = "ERROR"
    /\ LastCall(venue).symbol = 1
    /\ \E g \in Gens : loop[g].sym = 2

(***************************************************************************)
(* Properties of the decision task and of engine construction              *)
(***************************************************************************)
\* the latest ticker firing was a decision tick, and its iteration is over
DecisionTickDone ==
    /\ lastTick.k = "trading"
    /\ task[lastTick.g]["trading"] # "work"

\* C21: in paper-trading mode a decision tick still asks the strategy about
\* every symbol that has a snapshot
C21_PaperStillEvaluates ==
    (config.EnablePaperTrading /\ DecisionTickDone) =>
        \A s \in Symbols : marketData[s] # 0 => Len(evals[lastTick.g][s]) = 1

VariantOf(type) ==
    CASE type = "simple_moving_average" -> "sma"
      [] type = "rsi" -> "rsi"
      [] type = "grid" -> "grid"
      [] type = "ai" -> "ai"
      [] OTHER -> "sma"

\* C22: the engine's strategy is the variant its configured type names, and
\* the SMA variant for a type that names none
C22_TypeSelectsVariant ==
    strategyType # Standalone => strategy.variant = VariantOf(strategyType)

\* the strategy call a step makes for generation g, << >> if it makes none
NewEvals(g) ==
    LET sym == loop[g].sym
    IN  IF sym \in Symbols /\ Len(evals'[g][sym]) > Len(evals[g][sym])
        THEN SubSeq(evals'[g][sym], Len(evals[g][sym]) + 1, Len(evals'[g][sym]))
        ELSE << >>

\* C23: in one decision tick a symbol gets at most one strategy call, and
\* exactly one once its position has been loaded: ShouldSell when an OPEN
\* position was loaded, ShouldBuy otherwise; a BUY is placed only for a
\* symbol whose one call of the tick was ShouldBuy
C23_OneEvaluationPerSymbol ==
    [][\A g \in Gens :
          /\ \A s \in Symbols : Len(evals'[g][s]) <= 1
          /\ NewEvals(g) # << >> =>
                NewEvals(g) = <<IF loop[g].pos # 0 THEN "ShouldSell" ELSE "ShouldBuy">>
          /\ (loop[g].step = "eval" /\ loop'[g] # loop[g]) =>
                Len(evals'[g][loop[g].sym]) = 1
          /\ (loop[g].step = "place" /\ loop[g].signal = "BUY" /\ venue' # venue) =>
                evals[g][loop[g].sym] = <<"ShouldBuy">>
          /\ (loop[g].step = "place" /\ loop[g].signal = "SELL" /\ loop'[g] # loop[g]) =>
                /\ evals'[g][loop[g].sym] = <<"ShouldSell">>
                /\ loop'[g].sym # loop[g].sym]_vars

\* a sell was evaluated, filled and closed the position, and the tick is over
C23_Witness ==
    \E g \in Gens : \E i \in DOMAIN positions :
        /\ positions[i].status = "CLOSED"
        /\ evals[g][positions[i].symbol] = <<"ShouldSell">>
        /\ venue # << >>
        /\ LastCall(venue).side = "SELL" /\ LastCall(venue).status = "FILLED"
        /\ task[g]["trading"] = "wait"

\* generation g hands an order to the venue in this step
Places(g) ==
    /\ loop[g].step = "place"
    /\ loop'[g] # loop[g]
    /\ Cardinality(DecisionCalls(venue')) = Cardinality(DecisionCalls(venue)) + 1

\* C24: a buy the venue reports FILLED adds an OPEN LONG row of the executed
\* quantity for its symbol, entered at a fill price; a sell the venue reports
\* FILLED leaves the row of its position CLOSED with the realised profit the
\* engine computed as its closedPnL; any other answer leaves the positions as
\* they were
C24_PositionsFollowFills ==
    [][\A g \in Gens :
          Places(g) =>
             LET c == LastCall(venue')
             IN  IF c.status # "FILLED" THEN positions' = positions
                 ELSE IF c.side = "BUY"
                 THEN /\ Len(positions') = Len(positions) + 1
                      /\ LastCall(positions').symbol = c.symbol
                      /\ LastCall(positions').positionSide = "LONG"
                      /\ LastCall(positions').status = "OPEN"
                      /\ LastCall(positions').size = c.quantity
                      /\ LastCall(positions').entryPrice \in Prices
                 ELSE /\ positions'[loop[g].pos].status = "CLOSED"
                      /\ positions'[loop[g].pos].closedPnL = dailyPnL' - dailyPnL]_vars

\* C25: a decision order the venue reports FILLED is counted in dailyTrades
C25_RiskStateTracksFills ==
    [][\A g \in Gens :
          (Places(g) /\ LastCall(venue').status = "FILLED") =>
             rm'.dailyTrades = rm.dailyTrades + 1]_vars

\* C30: no BUY is placed whose notional is below the configured minimum
\* order value
C30_MinOrderValueEnforced ==
    [][\A g \in Gens :
          (Places(g) /\ LastCall(venue').side = "BUY") =>
             LastCall(venue').quantity * loop[g].price >= minOrderValue]_vars

\* C26: a ValidateOrder call made on the date of lastResetDate leaves
\* dailyLoss, dailyTrades, totalExposure, maxExposure and lastResetDate as
\* they were, whether it approves or rejects the order
C26_ValidateOrderReadOnly ==
    [][(now' = now /\ call'.op = "ValidateOrder"
           /\ DateOf(now) = DateOf(rm.lastResetDate)) =>
          /\ rm'.dailyLoss = rm.dailyLoss
          /\ rm'.dailyTrades = rm.dailyTrades
          /\ rm'.totalExposure = rm.totalExposure
          /\ rm'.maxExposure = rm.maxExposure
          /\ rm'.lastResetDate = rm.lastResetDate]_vars

\* an order was approved later on the day of the last reset, with trades, a
\* nonzero dailyLoss and an exposure on the books
C26_Witness ==
    /\ call.op = "ValidateOrder" /\ call.ret
    /\ rm.lastResetDate # 0
    /\ now # rm.lastResetDate /\ DateOf(now) = DateOf(rm.lastResetDate)
    /\ rm.dailyTrades > 0 /\ rm.dailyLoss # 0 /\ rm.totalExposure > 0

\* the same, for an order the checks rejected
C26_RejectedSameDay ==
    /\ call.op = "ValidateOrder" /\ ~call.ret
    /\ rm.lastResetDate # 0
    /\ now # rm.lastResetDate /\ DateOf(now) = DateOf(rm.lastResetDate)
    /\ rm.dailyTrades > 0 /\ rm.dailyLoss > 0 /\ rm.totalExposure > 0

\* C27: a tick is taken only by a task that is blocked in its select, its
\* previous iteration over, and a decision iteration starts at the first
\* symbol only from the idle loop
C27_IterationsSequential ==
    [][/\ ticksLeft' < ticksLeft =>
             /\ task[lastTick'.g][lastTick'.k] = "wait"
             /\ lastTick'.k = "trading" => loop[lastTick'.g] = IdleLoop
       /\ \A g \in Gens :
             (task'[g]["trading"] = "work" /\ task[g]["trading"] # "work") =>
                 /\ ticksLeft' < ticksLeft
                 /\ lastTick' = [g |-> g, k |-> "trading", failed |-> {}]]_vars

\* the market task of a generation ran an iteration while the decision task
\* of that generation was in the middle of its own
C27_Witness ==
    /\ lastTick.k = "market"
    /\ task[lastTick.g]["trading"] = "work"
    /\ loop[lastTick.g].step = "place"
    /\ task[lastTick.g]["market"] = "wait"

\* two goroutines can access the same field next, one of them writing, with
\* no mutex in common
Unsynchronized(a, b) ==
    /\ a.who # b.who
    /\ a.field = b.field
    /\ a.write \/ b.write
    /\ a.locks \cap b.locks = {}

\* C28: no state is reached in which two goroutines can access the same
\* shared field, one of them writing, without a common mutex
C28_SharedStateUnderLock ==
    \A a \in Accesses : \A b \in Accesses : ~Unsynchronized(a, b)

\* the decision iteration of g goes on to the next symbol, or, after the last
\* one, ends with the task back in its select (gone only if its context is done)
Proceeds(g) ==
    IF loop[g].sym < config.Symbols
    THEN /\ loop'[g] = [IdleLoop EXCEPT !.step = "load", !.sym = loop[g].sym + 1]
         /\ task'[g] = task[g]
    ELSE /\ loop'[g] = IdleLoop
         /\ task'[g]["trading"] = IF TaskCtxDone(g) THEN "exited" ELSE "wait"

\* the step is a failure met by the decision iteration of g: no snapshot or a
\* GetPosition error (a load that does not reach the strategy), or a
\* PlaceOrder error; a strategy error ends the symbol as a HOLD does
FailsIn(g) ==
    \/ loop[g].step = "load" /\ loop'[g] # loop[g] /\ loop'[g].step # "eval"
    \/ Places(g) /\ LastCall(venue').status = "ERROR"

\* C29: a failure in the decision iteration ends the work on its symbol only:
\* the iteration proceeds to the next symbol and the task keeps running, as
\* every step of the iteration either stays on its symbol or proceeds; a
\* market-data iteration leaves the cached snapshot and the persisted record
\* of each symbol whose fetch failed as they were, and caches every other one
C29_FailureAbandonsOneOperation ==
    [][/\ \A g \in Gens :
             /\ FailsIn(g) => Proceeds(g)
             /\ (loop[g].step # "idle" /\ loop'[g] # loop[g]) =>
                    \/ loop'[g].sym = loop[g].sym /\ task'[g] = task[g]
                    \/ Proceeds(g)
       /\ (ticksLeft' < ticksLeft /\ lastTick'.k = "market") =>
             \A s \in Symbols :
                IF s \in lastTick'.failed
                THEN marketData'[s] = marketData[s] /\ marketRows'[s] = marketRows[s]
                ELSE marketData'[s] # 0]_vars

\* a decision iteration lost the first symbol, whose snapshot is cached, to
\* a GetPosition error before any strategy call, and is at work on the second
C29_Witness ==
    \E g \in Gens :
        /\ lastTick.g = g /\ lastTick.k = "trading"
        /\ faultsLeft = 0
        /\ marketData[1] # 0
        /\ loop[g].sym = 2 /\ loop[g].step = "eval"
        /\ evals[g][1] = << >>

\* a market-data iteration whose fetch for the first symbol failed kept the
\* snapshot cached before and cached the second symbol
C29_FetchFailureKeptSnapshot ==
    /\ lastTick.k = "market" /\ lastTick.failed = {1}
    /\ marketData[1] # 0 /\ marketRows[1] # 0
    /\ 2 \in Symbols /\ marketData[2] # 0

\* the latest order the decision task submitted for sym was a BUY that
\* PlaceOrder failed
DroppedAtVenue(sym) ==
    \E i \in DecisionCalls(venue) :
        /\ venue[i].symbol = sym /\ venue[i].side = "BUY" /\ venue[i].status = "ERROR"
        /\ \A j \in DecisionCalls(venue) : (venue[j].symbol = sym) => j <= i

\* the latest decision iteration of g evaluated sym for a buy and placed
\* nothing for it: the strategy held or the RiskManager rejected the BUY
DroppedAtGate(g, sym) ==
    /\ loop[g] = IdleLoop
    /\ evals[g][sym] = <<"ShouldBuy">>
    /\ \A i \in DecisionCalls(venue) : venue[i].symbol # sym

\* the strategy answers BUY for the symbol g is evaluating and the order is
\* handed on to executeBuyOrder
BuyGoesOn(g) == TradingEval(g, "BUY") /\ loop'[g].step = "place"

\* C31: in a decision iteration that follows a dropped BUY, a symbol with a
\* cached snapshot and no OPEN position reaches the strategy again (unless
\* GetPosition fails), ShouldBuy is called for it, a BUY the RiskManager
\* approves can go on to executeBuyOrder, and executeBuyOrder calls PlaceOrder
C31_DroppedSignalRetried ==
    /\ [](\A g \in Gens :
            LET sym == loop[g].sym
                order == OrderInfo(sym, BuySignal(loop[g].price))
            IN  (/\ loop[g].step = "eval" /\ loop[g].pos = 0 /\ DroppedAtVenue(sym)
                 /\ ValidateOrder(rm, riskConfig, order, now)) => ENABLED BuyGoesOn(g))
    /\ [][\A g \in Gens :
          LET sym == loop[g].sym
          IN  /\ (/\ loop[g].step = "load" /\ loop'[g] # loop[g]
                  /\ DroppedAtVenue(sym)
                  /\ marketData[sym] # 0 /\ GetPosition(sym, "LONG") = 0
                  /\ faultsLeft' = faultsLeft) =>
                     loop'[g] = [IdleLoop EXCEPT !.step = "eval", !.sym = sym,
                                                 !.price = marketData[sym]]
              /\ (/\ loop[g].step = "eval" /\ loop[g].pos = 0 /\ DroppedAtVenue(sym)
                  /\ loop'[g] # loop[g]) =>
                     evals'[g][sym] = <<"ShouldBuy">>
              /\ (loop[g].step = "place" /\ loop[g].signal = "BUY" /\ loop'[g] # loop[g]) =>
                     /\ Places(g)
                     /\ LastCall(venue').symbol = sym /\ LastCall(venue').side = "BUY"
          /\ (\E s \in Symbols : DroppedAtGate(g, s)) =>
                 (task'[g]["trading"] = "work" =>
                     loop'[g] = [IdleLoop EXCEPT !.step = "load", !.sym = 1])]_vars

\* the BUY for a symbol failed at PlaceOrder and the next decision iteration
\* submitted a BUY for it again
C31_Witness ==
    /\ Len(venue) = 2
    /\ venue[1].origin = "decision" /\ venue[1].side = "BUY" /\ venue[1].status = "ERROR"
    /\ venue[2].origin = "decision" /\ venue[2].side = "BUY"
    /\ venue[2].symbol = venue[1].symbol
    /\ lastTick.k = "trading"

\* the RiskManager rejected the BUY for a symbol and the next decision
\* iteration called ShouldBuy for it again
C31_RejectedThenEvaluated ==
    \E g \in Gens :
        /\ ticksLeft = 0 /\ lastTick = [g |-> g, k |-> "trading", failed |-> {}]
        /\ config.MaxPositionSize < PositionValue
        /\ marketData[1] # 0
        /\ venue = << >>
        /\ evals[g][1] = <<"ShouldBuy">>

\* the goroutines of task k that have been launched and have not returned
Running(k) == {g \in Gens : task[g][k] \in {"wait", "work"}}

\* C32: at most one goroutine of each periodic task is running, whatever
\* Start and Stop calls were made
C32_OneInstancePerTask ==
    \A k \in Kinds : Cardinality(Running(k)) <= 1

\* a BUY of the decision task for sym was FILLED and no SELL for sym has been
\* accepted by the venue since
HeldAtVenue(sym) ==
    \E i \in DOMAIN venue :
        /\ venue[i].origin = "decision" /\ venue[i].symbol = sym
        /\ venue[i].side = "BUY" /\ venue[i].status = "FILLED"
        /\ \A j \in DOMAIN venue :
              (j > i /\ venue[j].symbol = sym /\ venue[j].side = "SELL") =>
                  venue[j].status = "ERROR"

\* C33: the decision task submits no BUY for a symbol whose earlier FILLED BUY
\* has not been followed by a SELL
C33_NoBuyWhileHeld ==
    [][\A g \in Gens :
          (Places(g) /\ LastCall(venue').side = "BUY") =>
              ~HeldAtVenue(LastCall(venue').symbol)]_vars

\* C34: winningTrades + losingTrades never exceeds totalTrades, and the win
\* rate saved by the risk-metrics task is at most 100
C34_WinRateWithinBounds ==
    /\ winningTrades + losingTrades <= totalTrades
    /\ metrics <= 100

\* C35: a ValidateOrder call that follows EmergencyStop on the date of that
\* call returns false, whatever the date of the last reset was when
\* EmergencyStop was called
C35_EmergencyStopHoldsForTheDay ==
    [][(/\ call.op = "EmergencyStop" /\ stopDate = DateOf(now)
        /\ call'.op = "ValidateOrder" /\ now' = now) =>
          ~call'.ret]_vars

\* the strategy answers SELL for the open position g is evaluating and the
\* signal is handed on to executeSellOrder
SellGoesOn(g) ==
    /\ TradingEval(g, "SELL")
    /\ loop'[g].step = "place" /\ loop'[g].signal = "SELL"

\* C36: for a symbol with an OPEN position a SELL answer always goes on to
\* executeSellOrder, whatever the RiskManager would say; the evaluation leaves
\* the RiskManager untouched, not even the daily reset of ValidateOrder
\* happens; and executeSellOrder hands the closing order to the venue
C36_SellBypassesRiskGate ==
    /\ [](\A g \in Gens :
            (loop[g].step = "eval" /\ HoldsOpen(loop[g].pos)) => ENABLED SellGoesOn(g))
    /\ [][\A g \in Gens :
            /\ (loop[g].step = "eval" /\ HoldsOpen(loop[g].pos) /\ loop'[g] # loop[g]) =>
                   rm' = rm
            /\ (loop[g].step = "place" /\ loop[g].signal = "SELL" /\ loop'[g] # loop[g]) =>
                   /\ Places(g)
                   /\ LastCall(venue').side = "SELL"
                   /\ LastCall(venue').symbol = loop[g].sym
                   /\ rm' = rm]_vars

\* after EmergencyStop, with trading no longer allowed, the SELL for an open
\* position is on its way to the venue
C36_Witness ==
    \E g \in Gens :
        /\ loop[g].step = "place" /\ loop[g].signal = "SELL"
        /\ latched /\ call.op = "EmergencyStop"
        /\ ~isTradingAllowed(rm, riskConfig)

\* C37: a Stop of a running engine submits one closing SELL per OPEN position
\* it loaded and leaves every Position record and the counters dailyPnL,
\* winningTrades and losingTrades as they were
C37_StopLeavesRecords ==
    [][(isRunning /\ ~isRunning') =>
          /\ positions' = positions
          /\ <<dailyPnL, winningTrades, losingTrades>>' = <<dailyPnL, winningTrades, losingTrades>>
          /\ result'.loaded =>
                /\ result'.attempted = GetAllPositions
                /\ Len(venue') = Len(venue) + Cardinality(GetAllPositions)
                /\ \A j \in (Len(venue) + 1)..Len(venue') :
                      /\ venue'[j].origin = "stop" /\ venue'[j].side = "SELL"
                      /\ \E i \in GetAllPositions :
                            /\ venue'[j].symbol = positions[i].symbol
                            /\ venue'[j].quantity = positions[i].size]_vars

\* a position was liquidated by Stop, and the decision task of the Start
\* that followed loaded it as OPEN
C37_Witness ==
    /\ gens = 2 /\ isRunning
    /\ loop[2].step = "eval" /\ loop[2].pos # 0
    /\ positions[loop[2].pos].status = "OPEN"
    /\ \E j \in DOMAIN venue :
          /\ venue[j].origin = "stop" /\ venue[j].status = "ACCEPTED"
          /\ venue[j].symbol = loop[2].sym

\* C38: ShouldClosePosition answers "Maximum loss exceeded" only for a
\* position whose unrealized PnL is negative, with a loss above twice
\* stopLossPercent of its value
C38_MaximumLossOnlyOnLoss ==
    closeCheck.reason = "Maximum loss exceeded" =>
        /\ closeCheck.position.UnrealizedPnL < 0
        /\ (-closeCheck.position.UnrealizedPnL) * 100
              > riskConfig.StopLossPercent * 2 * closeCheck.position.Value

\* C39: with riskPerTrade > 0, an order that passes the trading-allowed,
\* order-size, position-size and exposure checks of ValidateOrder is approved:
\* the daily-loss and risk-per-trade checks reject nothing the others let by
C39_FourChecksDecide ==
    (/\ call.op = "ValidateOrder"
     /\ riskConfig.RiskPerTrade > 0
     /\ isTradingAllowed(rm, riskConfig)
     /\ validateOrderSize(riskConfig, call.order)
     /\ validatePositionSize(riskConfig, call.order)
     /\ validateExposureLimit(rm, call.order)) => call.ret

\* an order of more than half of MaxPositionSize was approved with a nonzero
\* dailyLoss and an exposure on the books
C39_Witness ==
    /\ call.op = "ValidateOrder" /\ call.ret
    /\ riskConfig.RiskPerTrade > 0
    /\ orderValue(call.order) * 2 > riskConfig.MaxPositionSize
    /\ rm.dailyLoss # 0 /\ rm.totalExposure > 0

\* the callers that are inside Start or Stop, past e.mu.Lock()
Inside == {c \in Callers : callers[c].step \in {"check", "set", "launch", "cancel"}}

\* the callers whose latest call was a Start that returned err
StartReturned(err) ==
    {c \in Callers : callers[c].op = "Start" /\ callers[c].step = "done" /\ callers[c].err = err}

\* C40: Start and Stop calls run one at a time, the caller inside holding the
\* mutex; a Start that is past the assignment of isRunning finds the engine
\* marked running until it returns; as long as no Stop has stopped the engine,
\* at most one caller had its Start succeed and one set of tasks was launched,
\* and a Start that returned the already-running error came after a Start
\* that launched the tasks
C40_StartsSerialized ==
    /\ Cardinality(Inside) <= 1
    /\ \A c \in Inside : mu = c
    /\ \A c \in Callers : callers[c].step = "launch" => isRunning
    /\ ~ctxDone => /\ gens <= 1
                   /\ Cardinality(StartReturned("nil")) <= 1
    /\ StartReturned("already running") # {} => gens >= 1

\* two callers invoked Start on the stopped engine at once: one launched the
\* tasks and the other, which was waiting for the mutex meanwhile, got the
\* already-running error
C40_Witness ==
    \E c \in Callers : \E d \in Callers :
        /\ ~ctxDone /\ gens = 1 /\ isRunning
        /\ c \in StartReturned("nil")
        /\ d \in StartReturned("already running")
        /\ \A k \in Kinds : task[1][k] = "wait"

\* one caller is inside Start, past the assignment of isRunning, while another
\* has called Start and waits for the mutex
C40_ConcurrentStarts ==
    \E c \in Callers : \E d \in Callers :
        /\ At(c, "Start", "launch")
        /\ At(d, "Start", "lock")
        /\ gens = 0

====
